---- MODULE Spec2Model ----
(***************************************************************************)
(* A model of proxyreader: the two caching fetchers (lib/gist.ts,          *)
(* lib/imgur.ts) and the reading session of the reader client components   *)
(* (GistReaderClient, ImgurReaderClient).                                  *)
(*                                                                         *)
(* FetchSpec  : callers of fetchGistConfig / fetchImgurAlbumPages that     *)
(*              interleave at the awaits, the two module-level Map caches, *)
(*              and the setTimeout deletions.                              *)
(* ReaderSpec : one mounted reader component over localStorage.            *)
(* RepeatSpec, RoundTripSpec : the reader under a held key, and under one   *)
(*              ArrowRight followed by one ArrowLeft.                      *)
(* ResolveSpec: resolveSourcePages.  PageSpec: the gist reader page.       *)
(* InfoSpec   : the gist info page and its overlapping loads.              *)
(* SortSpec   : sortChapterKeys.                                           *)
(***************************************************************************)
EXTENDS Integers, Sequences, FiniteSets, TLC

\* ------------------------------------------------------------------ bounds
\* pending setTimeout callbacks plus calls that may still schedule one
MaxTimers == 2
\* entries in an Imgur response's data array
MaxData == 2
\* longest page list handed to a reader component
MaxPages == 10

\* 60 * 60 * 1000 ms, counted in clock ticks of half an hour
TTL == 2

\* requests that call a fetcher while another's call is suspended at an await
Callers == {"c1", "c2"}
Kinds == {"gist", "imgur"}
Ids == {"a", "b"}

VARIABLES
    gistCache,    \* gist.ts: const gistCache = new Map<string, GistConfig>()
    albumCache,   \* imgur.ts: const albumCache = new Map<string, string[]>()
    fetcher,      \* the source this run reads from, gist or imgur (they share no state)
    timers,       \* pending setTimeout(() => cache.delete(key), 1 hour), in firing order
    clientId,     \* process.env.IMGUR_CLIENT_ID is set
    call,         \* per caller: the fetch it runs and where it is suspended
    lastOutcome,  \* history: how the most recently completed fetch of each key ended
    lastStep,     \* history: what the last step did
    storage,      \* window.localStorage: key -> stored string
    session       \* the mounted reader component (props, React state, pending effects)

vars == <<gistCache, albumCache, fetcher, timers, clientId, call, lastOutcome, lastStep,
          storage, session>>

\* ------------------------------------------------------------ Map helpers
\* Map.prototype.has
MapHas(m, k) == k \in DOMAIN m
\* Map.prototype.set
MapSet(m, k, v) == [x \in DOMAIN m \cup {k} |-> IF x = k THEN v ELSE m[x]]
\* Map.prototype.delete
MapDelete(m, k) == [x \in DOMAIN m \ {k} |-> m[x]]
EmptyMap == [x \in {} |-> 0]

\* --------------------------------------------------------- suspended calls
\* A caller is idle, or inside a fetch that is suspended at an await: "api" (the
\* request to the API) or "raw" (the request to the gist file's raw_url).
IdleCall == [pc |-> "idle", kind |-> "none", id |-> "none"]
Awaiting(pc, kind, id) == [pc |-> pc, kind |-> kind, id |-> id]
InFlight(p) == call[p].pc \in {"api", "raw"}
NumInFlight == Cardinality({p \in Callers : InFlight(p)})

\* ------------------------------------------------------------------ timers
\* setTimeout(() => cache.delete(cacheKey), 60 * 60 * 1000): the new callback is
\* queued behind the pending ones; "latest" (history) marks the callback scheduled
\* at the most recent insertion of its key.
ScheduleDelete(ts, kind, id) ==
    Append([i \in 1..Len(ts) |->
               IF ts[i].kind = kind /\ ts[i].id = id
                 THEN [ts[i] EXCEPT !.latest = FALSE] ELSE ts[i]],
           [kind |-> kind, id |-> id, left |-> TTL, latest |-> TRUE])

\* ticks still to pass before the deletion scheduled at the latest insertion is due
OwnDeletionLeft(kind, id) ==
    LET S == {i \in 1..Len(timers) :
                 timers[i].kind = kind /\ timers[i].id = id /\ timers[i].latest}
    IN IF S = {} THEN 0 ELSE timers[CHOOSE i \in S : TRUE].left

CacheOf(kind) == IF kind = "gist" THEN gistCache ELSE albumCache

\* ------------------------------------------------------- Imgur album fetcher
\* An ImgurImage's type is "major/minor", kept as <<major, minor>>; <<>> is an
\* entry without a type field.
ImgurImages ==
    { [type |-> <<"image", "png">>,  link |-> "u1"],
      [type |-> <<"image", "jpeg">>, link |-> "u2"],
      [type |-> <<"video", "mp4">>,  link |-> "u3"],
      [type |-> <<>>,                link |-> "u4"] }

\* data arrays: up to MaxData entries, no image listed twice
DataArrays ==
    { a \in UNION {[1..n -> ImgurImages] : n \in 0..MaxData} :
        \A i, j \in 1..Len(a) : a[i] = a[j] => i = j }

\* What the album endpoint may answer: HTTP status, the body's success flag, and
\* data (isArray = FALSE: the field is absent or not an array).
ImgurResponses ==
    { r \in [status : {200, 403}, success : BOOLEAN, isArray : BOOLEAN, data : DataArrays] :
        (r.status # 200 \/ ~r.success \/ ~r.isArray) => r.data = <<>> }

\* Response.ok
ResponseOk(status) == status >= 200 /\ status <= 299

\* img.type?.startsWith('image/')
IsImageType(t) == Len(t) > 0 /\ t[1] = "image"

IsImageEntry(img) == IsImageType(img.type)

\* (mutant) the links of all entries, whatever their type
AllLinks(data) == [i \in 1..Len(data) |-> data[i].link]

\* data.data.filter(img => img.type?.startsWith('image/')).map(img => img.link)
FilterImageLinks(data) ==
    LET kept == SelectSeq(data, IsImageEntry)
    IN [i \in 1..Len(kept) |-> kept[i].link]

\* (mutant) the body's success flag is examined before the HTTP status
ImgurTrySuccessFirst(resp) ==
    IF ~resp.success
      THEN [threw |-> TRUE, err |-> "ApiRejected", status |-> 0, pages |-> <<>>]
    ELSE IF ~ResponseOk(resp.status)
      THEN [threw |-> TRUE, err |-> "RemoteError", status |-> resp.status, pages |-> <<>>]
    ELSE IF ~resp.isArray
      THEN [threw |-> TRUE, err |-> "FormatError", status |-> 0, pages |-> <<>>]
    ELSE LET pages == FilterImageLinks(resp.data)
         IN IF Len(pages) = 0
              THEN [threw |-> TRUE, err |-> "EmptyResult", status |-> 0, pages |-> pages]
              ELSE [threw |-> FALSE, err |-> "", status |-> 0, pages |-> pages]

\* The try block of fetchImgurAlbumPages after the awaited response: whether it
\* throws (the catch rethrows the error unchanged; status is the HTTP status the
\* error message carries, 0 when it carries none), and what it leaves in pages
\* (let pages: string[] = [] before the try).
ImgurTry(resp) ==
    IF ~ResponseOk(resp.status)
      THEN [threw |-> TRUE, err |-> "RemoteError", status |-> resp.status, pages |-> <<>>]
    ELSE IF ~resp.success
      THEN [threw |-> TRUE, err |-> "ApiRejected", status |-> 0, pages |-> <<>>]
    ELSE IF ~resp.isArray
      THEN [threw |-> TRUE, err |-> "FormatError", status |-> 0, pages |-> <<>>]
    ELSE LET pages == FilterImageLinks(resp.data)
         IN IF Len(pages) = 0
              THEN [threw |-> TRUE, err |-> "EmptyResult", status |-> 0, pages |-> pages]
              ELSE [threw |-> FALSE, err |-> "", status |-> 0, pages |-> pages]

\* (mutant) the album is cached whatever the try block did
ImgurShouldCacheAlways(o) == TRUE

\* if (pages.length > 0) { albumCache.set(...); setTimeout(...) }: after the try
\* block, so reached only when nothing was thrown
ImgurShouldCache(o) == ~o.threw /\ Len(o.pages) > 0

\* albumCache.has(cacheKey) / gistCache.has(cacheKey)
CacheHit(cache, id) == MapHas(cache, id)

\* room for one more call that may schedule a deletion
MayStart == Len(timers) + NumInFlight < MaxTimers

\* history of a step that enters a fetcher: what the call did before its first
\* await (o), and what held when it was made
StartNote(kind, id, o) ==
    [op |-> "start", kind |-> kind, id |-> id,
     next |-> o.next, hit |-> o.hit, net |-> o.net, err |-> o.err,
     served |-> o.next = "return" /\ MapHas(CacheOf(kind), id) /\ o.val = CacheOf(kind)[id],
     present |-> MapHas(CacheOf(kind), id),
     ownLeft |-> OwnDeletionLeft(kind, id),
     prev |-> lastOutcome[<<kind, id>>]]

\* history of a step in which a suspended fetch returns or throws (the album
\* fetcher adds the response it was resumed with and the value it returned, the
\* manifest fetcher the file text it parsed, the value it returned and, as
\* from, the response it was resumed with)
EndNote(kind, id, tag, err, wrote) ==
    [op |-> "end", kind |-> kind, id |-> id, tag |-> tag, err |-> err, wrote |-> wrote]

\* (mutant) the request is issued without looking at the credential
ImgurCallStartNoCredential(cache, id, cred) ==
    IF CacheHit(cache, id)
      THEN [next |-> "return", hit |-> TRUE, net |-> 0, val |-> cache[id], err |-> ""]
    ELSE [next |-> "await", hit |-> FALSE, net |-> 1, val |-> <<>>, err |-> ""]

\* fetchImgurAlbumPages up to its first await: cache hit, missing credential, or
\* the request to the album endpoint is issued.
ImgurCallStart(cache, id, cred) ==
    IF CacheHit(cache, id)
      THEN [next |-> "return", hit |-> TRUE, net |-> 0, val |-> cache[id], err |-> ""]
    ELSE IF ~cred
      THEN [next |-> "throw", hit |-> FALSE, net |-> 0, val |-> <<>>, err |-> "AuthError"]
    ELSE [next |-> "await", hit |-> FALSE, net |-> 1, val |-> <<>>, err |-> ""]

\* the outcome of a call that ended before its first await
StartOutcomes(outcome, kind, id, o) ==
    IF o.next = "await" THEN outcome
    ELSE [outcome EXCEPT ![<<kind, id>>] = IF o.next = "return" THEN "value" ELSE "error"]

ImgurStart(p, id) ==
    /\ fetcher = "imgur"
    /\ call[p].pc = "idle"
    /\ LET o == ImgurCallStart(albumCache, id, clientId)
       IN /\ o.next = "await" => MayStart
          /\ call' = [call EXCEPT ![p] =
                         IF o.next = "await" THEN Awaiting("api", "imgur", id) ELSE IdleCall]
          /\ lastStep' = StartNote("imgur", id, o)
          /\ lastOutcome' = StartOutcomes(lastOutcome, "imgur", id, o)
    /\ UNCHANGED <<gistCache, albumCache, fetcher, timers, clientId, storage, session>>

\* fetchImgurAlbumPages resumed with the endpoint's response.
ImgurResponse(p, resp) ==
    /\ call[p].pc = "api" /\ call[p].kind = "imgur"
    /\ LET id == call[p].id
           o == ImgurTry(resp)
           store == ImgurShouldCache(o)
           tag == IF o.threw THEN "error" ELSE "value"
       IN /\ albumCache' = IF store THEN MapSet(albumCache, id, o.pages) ELSE albumCache
          /\ timers' = IF store THEN ScheduleDelete(timers, "imgur", id) ELSE timers
          /\ call' = [call EXCEPT ![p] = IdleCall]
          /\ lastOutcome' = [lastOutcome EXCEPT ![<<"imgur", id>>] = tag]
          /\ lastStep' = EndNote("imgur", id, tag, o.err, store)
                            @@ [resp |-> resp, status |-> o.status,
                                val |-> IF o.threw THEN <<>> ELSE o.pages]
    /\ UNCHANGED <<gistCache, fetcher, clientId, storage, session>>

\* ----------------------------------------------------- Gist manifest fetcher
\* JSON values: [t |-> "undefined"], [t |-> "string", s |-> ...], [t |-> "number"],
\* [t |-> "array", items |-> <<...>>], [t |-> "object", props |-> << <<key, value>>, ... >>]
\* (own properties in order).
JUndefined == [t |-> "undefined"]
JStr(s) == [t |-> "string", s |-> s]
JNum == [t |-> "number"]
JArr(items) == [t |-> "array", items |-> items]
JObj(props) == [t |-> "object", props |-> props]

HasProp(o, k) == \E i \in 1..Len(o.props) : o.props[i][1] = k
\* o[k]
Prop(o, k) ==
    IF HasProp(o, k)
      THEN o.props[CHOOSE i \in 1..Len(o.props) : o.props[i][1] = k][2]
      ELSE JUndefined
\* Object.values(o)
ObjectValues(o) == [i \in 1..Len(o.props) |-> o.props[i][2]]

\* the strings of the model that parse as absolute URLs
UrlStrings == {"https://h/1.png", "https://h/2.png", "https://h/cover.png"}

\* z.string()
ZString(v) == v.t = "string"
\* z.string().optional()
ZOptString(v) == v.t = "undefined" \/ ZString(v)
\* z.string().url()
ZUrl(v) == v.t = "string" /\ v.s \in UrlStrings
\* (mutant) an array of URLs that must not be empty
ZUrlArrayNonEmpty(v) ==
    v.t = "array" /\ Len(v.items) > 0 /\ \A i \in 1..Len(v.items) : ZUrl(v.items[i])

\* z.array(z.string().url())
ZUrlArray(v) == v.t = "array" /\ \A i \in 1..Len(v.items) : ZUrl(v.items[i])
\* z.record(z.array(z.string().url()))
ZGroups(v) == v.t = "object" /\ \A i \in 1..Len(v.props) : ZUrlArray(v.props[i][2])

\* chapterSchema.passthrough()
ChapterSchemaOk(v) ==
    /\ v.t = "object"
    /\ ZString(Prop(v, "title"))
    /\ ZOptString(Prop(v, "volume"))
    /\ ZGroups(Prop(v, "groups"))

\* z.record(chapterSchema)
ZChapters(v) == v.t = "object" /\ \A i \in 1..Len(v.props) : ChapterSchemaOk(v.props[i][2])

\* (mutant) the manifest schema without its title
GistConfigSchemaNoTitle(v) ==
    /\ v.t = "object"
    /\ ZOptString(Prop(v, "description"))
    /\ ZOptString(Prop(v, "artist"))
    /\ ZOptString(Prop(v, "author"))
    /\ (Prop(v, "cover").t = "undefined" \/ ZUrl(Prop(v, "cover")))
    /\ ZChapters(Prop(v, "chapters"))

\* gistConfigSchema.passthrough(): .parse throws unless every check passes
GistConfigSchemaOk(v) ==
    /\ v.t = "object"
    /\ ZString(Prop(v, "title")) /\ Prop(v, "title").s # ""
    /\ ZOptString(Prop(v, "description"))
    /\ ZOptString(Prop(v, "artist"))
    /\ ZOptString(Prop(v, "author"))
    /\ (Prop(v, "cover").t = "undefined" \/ ZUrl(Prop(v, "cover")))
    /\ ZChapters(Prop(v, "chapters"))

\* the keys of the two object schemas, in the order they are declared
ChapterShape == <<"title", "volume", "groups">>
GistConfigShape == <<"title", "description", "artist", "author", "cover", "chapters">>

InShape(shape, k) == \E i \in DOMAIN shape : shape[i] = k

\* the fields of the parsed object that the schema declares: those the input
\* has, in the schema's order
KnownProps(v, shape) ==
    LET present == SelectSeq(shape, LAMBDA k : HasProp(v, k))
    IN  [i \in 1..Len(present) |-> <<present[i], Prop(v, present[i])>>]

\* (mutant) a schema without passthrough strips the fields it does not declare
ExtraPropsStripped(v, shape) == <<>>

\* passthrough(): the fields the schema does not declare follow, as they are
\* and in the input's order
ExtraProps(v, shape) == SelectSeq(v.props, LAMBDA kv : ~InShape(shape, kv[1]))

\* the value chapterSchema.parse returns for a chapter that passes
ChapterSchemaOutput(v) ==
    JObj(KnownProps(v, ChapterShape) \o ExtraProps(v, ChapterShape))

\* the value z.record(chapterSchema) returns: every key, in the input's order
ZChaptersOutput(v) ==
    JObj([i \in 1..Len(v.props) |-> <<v.props[i][1], ChapterSchemaOutput(v.props[i][2])>>])

\* the value gistConfigSchema.parse returns for a manifest that passes
GistConfigSchemaOutput(v) ==
    LET known == KnownProps(v, GistConfigShape)
    IN  JObj([i \in 1..Len(known) |->
                 IF known[i][1] = "chapters"
                   THEN <<"chapters", ZChaptersOutput(known[i][2])>> ELSE known[i]]
             \o ExtraProps(v, GistConfigShape))

Urls12 == JArr(<<JStr("https://h/1.png"), JStr("https://h/2.png")>>)
ChapterOne == JObj(<< <<"title", JStr("c1")>>, <<"groups", JObj(<< <<"g", Urls12>> >>)>> >>)
\* a chapter without groups entries, with an unknown field
ChapterNoGroups ==
    JObj(<< <<"title", JStr("")>>, <<"last_updated", JNum>>, <<"groups", JObj(<<>>)>> >>)
\* a chapter whose group is a source path, not an array
ChapterPathGroup ==
    JObj(<< <<"title", JStr("c3")>>,
            <<"groups", JObj(<< <<"g", JStr("/proxy/api/imgur/chapter/abc123/")>> >>)>> >>)

DocGood == JObj(<< <<"title", JStr("T")>>, <<"chapters", JObj(<< <<"1", ChapterOne>> >>)>> >>)
DocGoodExtra ==
    JObj(<< <<"title", JStr("U")>>, <<"rating", JNum>>,
            <<"chapters", JObj(<< <<"1", ChapterOne>>, <<"2", ChapterNoGroups>> >>)>> >>)
DocNoTitle == JObj(<< <<"chapters", JObj(<< <<"1", ChapterOne>> >>)>> >>)
DocEmptyTitle == JObj(<< <<"title", JStr("")>>, <<"chapters", JObj(<<>>)>> >>)
DocPathGroup ==
    JObj(<< <<"title", JStr("T")>>, <<"chapters", JObj(<< <<"1", ChapterPathGroup>> >>)>> >>)

Docs == {DocGood, DocGoodExtra, DocNoTitle, DocEmptyTitle, DocPathGroup}

\* File texts: the empty string, text that is not JSON, or the JSON text of a doc.
TextEmpty == [kind |-> "empty"]
TextMalformed == [kind |-> "malformed"]
TextOf(d) == [kind |-> "json", doc |-> d]
Texts == {TextMalformed} \cup {TextOf(d) : d \in Docs}

\* A file of the gist: filename is <<base, extension>> or <<>> (no filename);
\* raw_url is offered or not; content is a text (TextEmpty: none, or empty).
FileRaw      == [filename |-> <<"manifest", "json">>, raw_url |-> TRUE,  content |-> TextMalformed]
FileUpper    == [filename |-> <<"Manifest", "JSON">>, raw_url |-> FALSE, content |-> TextOf(DocGood)]
FileExtra    == [filename |-> <<"b", "json">>,        raw_url |-> FALSE, content |-> TextOf(DocGoodExtra)]
FileNoTitle  == [filename |-> <<"c", "json">>,        raw_url |-> FALSE, content |-> TextOf(DocNoTitle)]
FileBadText  == [filename |-> <<"d", "json">>,        raw_url |-> FALSE, content |-> TextMalformed]
FileNoText   == [filename |-> <<"e", "json">>,        raw_url |-> FALSE, content |-> TextEmpty]
FileReadme   == [filename |-> <<"readme", "md">>,     raw_url |-> TRUE,  content |-> TextOf(DocGood)]
FileNameless == [filename |-> <<>>,                   raw_url |-> TRUE,  content |-> TextOf(DocGood)]

GistFiles ==
    {FileRaw, FileUpper, FileExtra, FileNoTitle, FileBadText, FileNoText, FileReadme,
     FileNameless}

\* the files objects of the API's answers: no file, one file, and two files
\* of which the first or the second is the manifest
GistFileLists ==
    {<<>>} \cup { <<f>> : f \in GistFiles }
           \cup { <<FileReadme, FileUpper>>, <<FileNameless, FileRaw>>,
                  <<FileRaw, FileExtra>>, <<FileExtra, FileRaw>>,
                  <<FileNoText, FileUpper>> }

\* What api.github.com/gists/{id} may answer: HTTP status and the body's files
\* (hasFiles = FALSE: the body has no files field).
GistResponses ==
    { r \in [status : {200, 404, 500}, hasFiles : BOOLEAN, files : GistFileLists] :
        /\ ~r.hasFiles => r.files = <<>>
        /\ ~ResponseOk(r.status) => r.files = <<>> }

\* What the raw_url may answer.
RawResponses == [ok : BOOLEAN, text : Texts]

\* String.prototype.toLowerCase on a file extension
ToLowerCase(ext) == IF ext = "JSON" THEN "json" ELSE ext

\* file.filename?.toLowerCase().endsWith('.json')
IsJsonFile(file) == Len(file.filename) > 0 /\ ToLowerCase(file.filename[2]) = "json"

\* Object.values(gistData.files).find(...): the index of the first JSON file, 0 if none
FindJsonFile(files) ==
    LET S == {i \in 1..Len(files) : IsJsonFile(files[i])}
    IN IF S = {} THEN 0 ELSE CHOOSE i \in S : \A j \in S : i <= j

\* (mutant) JSON.parse(fileContent) alone: the parsed value is not validated
ParseOnly(text) ==
    IF text.kind # "json"
      THEN [threw |-> TRUE, err |-> "SyntaxError", val |-> JUndefined]
    ELSE [threw |-> FALSE, err |-> "", val |-> text.doc]

\* JSON.parse(fileContent) then gistConfigSchema.parse(parsedConfig)
ParseAndValidate(text) ==
    IF text.kind # "json"
      THEN [threw |-> TRUE, err |-> "SyntaxError", val |-> JUndefined]
    ELSE IF ~GistConfigSchemaOk(text.doc)
      THEN [threw |-> TRUE, err |-> "ZodError", val |-> JUndefined]
    ELSE [threw |-> FALSE, err |-> "", val |-> GistConfigSchemaOutput(text.doc)]

\* (mutant) the inline content is used when there is one, the raw_url otherwise
GistAfterApiPreferContent(resp) ==
    IF ~ResponseOk(resp.status)
      THEN [next |-> "throw", err |-> IF resp.status = 404 THEN "GistNotFound" ELSE "FetchFailed",
            text |-> TextEmpty]
    ELSE IF ~resp.hasFiles
      THEN [next |-> "throw", err |-> "NoFiles", text |-> TextEmpty]
    ELSE LET i == FindJsonFile(resp.files)
         IN IF i = 0
              THEN [next |-> "throw", err |-> "NoJsonFile", text |-> TextEmpty]
            ELSE IF resp.files[i].content # TextEmpty
              THEN [next |-> "content", err |-> "", text |-> resp.files[i].content]
            ELSE IF resp.files[i].raw_url
              THEN [next |-> "raw", err |-> "", text |-> TextEmpty]
            ELSE [next |-> "throw", err |-> "NoContent", text |-> TextEmpty]

\* fetchGistConfig between the API response and the file content: throws, awaits
\* the raw_url, or goes on with the inline content.
GistAfterApi(resp) ==
    IF ~ResponseOk(resp.status)
      THEN [next |-> "throw", err |-> IF resp.status = 404 THEN "GistNotFound" ELSE "FetchFailed",
            text |-> TextEmpty]
    ELSE IF ~resp.hasFiles
      THEN [next |-> "throw", err |-> "NoFiles", text |-> TextEmpty]
    ELSE LET i == FindJsonFile(resp.files)
         IN IF i = 0
              THEN [next |-> "throw", err |-> "NoJsonFile", text |-> TextEmpty]
            ELSE IF resp.files[i].raw_url
              THEN [next |-> "raw", err |-> "", text |-> TextEmpty]
            ELSE IF resp.files[i].content # TextEmpty
              THEN [next |-> "content", err |-> "", text |-> resp.files[i].content]
            ELSE [next |-> "throw", err |-> "NoContent", text |-> TextEmpty]

\* fetchGistConfig up to its first await: cache hit, or the API request is issued.
GistCallStart(cache, id) ==
    IF CacheHit(cache, id)
      THEN [next |-> "return", hit |-> TRUE, net |-> 0, val |-> cache[id], err |-> ""]
      ELSE [next |-> "await", hit |-> FALSE, net |-> 1, val |-> JUndefined, err |-> ""]

GistStart(p, id) ==
    /\ fetcher = "gist"
    /\ call[p].pc = "idle"
    /\ LET o == GistCallStart(gistCache, id)
       IN /\ o.next = "await" => MayStart
          /\ call' = [call EXCEPT ![p] =
                         IF o.next = "await" THEN Awaiting("api", "gist", id) ELSE IdleCall]
          /\ lastStep' = StartNote("gist", id, o)
          /\ lastOutcome' = StartOutcomes(lastOutcome, "gist", id, o)
    /\ UNCHANGED <<gistCache, albumCache, fetcher, timers, clientId, storage, session>>

\* Lines 105-123 of gist.ts on a file text: parse, validate, then cache and
\* schedule the deletion, or throw (the catch rethrows new Error(err.message)).
GistFinish(p, text, from) ==
    LET id == call[p].id
        o == ParseAndValidate(text)
        tag == IF o.threw THEN "error" ELSE "value"
    IN /\ gistCache' = IF o.threw THEN gistCache ELSE MapSet(gistCache, id, o.val)
       /\ timers' = IF o.threw THEN timers ELSE ScheduleDelete(timers, "gist", id)
       /\ call' = [call EXCEPT ![p] = IdleCall]
       /\ lastOutcome' = [lastOutcome EXCEPT ![<<"gist", id>>] = tag]
       /\ lastStep' = EndNote("gist", id, tag, o.err, ~o.threw)
                         @@ [text |-> text, val |-> o.val, from |-> from]

GistThrow(p, err, from) ==
    /\ call' = [call EXCEPT ![p] = IdleCall]
    /\ lastOutcome' = [lastOutcome EXCEPT ![<<"gist", call[p].id>>] = "error"]
    /\ lastStep' = EndNote("gist", call[p].id, "error", err, FALSE) @@ [from |-> from]
    /\ UNCHANGED <<gistCache, timers>>

\* fetchGistConfig resumed with the API's response.
GistApiResponse(p, resp) ==
    /\ call[p].pc = "api" /\ call[p].kind = "gist"
    /\ LET a == GistAfterApi(resp)
       IN CASE a.next = "throw" -> GistThrow(p, a.err, [api |-> resp])
            [] a.next = "raw" ->
                 /\ call' = [call EXCEPT ![p].pc = "raw"]
                 /\ lastStep' = [op |-> "raw", kind |-> "gist", id |-> call[p].id,
                                 from |-> [api |-> resp]]
                 /\ UNCHANGED <<gistCache, timers, lastOutcome>>
            [] a.next = "content" -> GistFinish(p, a.text, [api |-> resp])
    /\ UNCHANGED <<albumCache, fetcher, clientId, storage, session>>

\* fetchGistConfig resumed with the raw_url's response.
GistRawResponse(p, raw) ==
    /\ call[p].pc = "raw" /\ call[p].kind = "gist"
    /\ IF raw.ok THEN GistFinish(p, raw.text, [raw |-> raw])
                 ELSE GistThrow(p, "RawFetchFailed", [raw |-> raw])
    /\ UNCHANGED <<albumCache, fetcher, clientId, storage, session>>

\* ------------------------------------------------------- timers and clock
\* The oldest pending setTimeout callback is due and runs: cache.delete(cacheKey).
TimerFire ==
    /\ timers # <<>>
    /\ Head(timers).left = 0
    /\ LET t == Head(timers)
       IN /\ gistCache' = IF t.kind = "gist" THEN MapDelete(gistCache, t.id) ELSE gistCache
          /\ albumCache' = IF t.kind = "imgur" THEN MapDelete(albumCache, t.id) ELSE albumCache
          /\ lastStep' = [op |-> "delete", kind |-> t.kind, id |-> t.id,
                          removed |-> MapHas(CacheOf(t.kind), t.id),
                          own |-> t.latest,
                          owed |-> OwnDeletionLeft(t.kind, t.id)]
    /\ timers' = Tail(timers)
    /\ UNCHANGED <<fetcher, clientId, call, lastOutcome, storage, session>>

\* Half an hour passes.
Tick ==
    /\ \E i \in 1..Len(timers) : timers[i].left > 0
    /\ timers' = [i \in 1..Len(timers) |->
                    [timers[i] EXCEPT !.left = IF @ > 0 THEN @ - 1 ELSE 0]]
    /\ lastStep' = [op |-> "tick"]
    /\ UNCHANGED <<gistCache, albumCache, fetcher, clientId, call, lastOutcome, storage, session>>

\* ---------------------------------------------------------- localStorage
\* What localStorage.getItem returns: null, or the stored text.  A stored text is
\* the JSON of a progress record (lastRead, a timestamp no code reads, is left
\* out), a JSON value without a page property, or a text whose parse or whose
\* .page access throws.
Null == [kind |-> "null"]
Garbage == [kind |-> "garbage"]
NoPage == [kind |-> "nopage"]
Progress(page, totalPages) == [kind |-> "record", page |-> page, totalPages |-> totalPages]

GetItem(st, key) == IF MapHas(st, key) THEN st[key] ELSE Null
SetItem(st, key, text) == MapSet(st, key, text)
RemoveItem(st, key) == MapDelete(st, key)

ProgressKeyNoChapter(kind, id, chapterKey) == <<"manga", "progress", kind>> \o id
\* `manga-progress-gist-${gistId}-${chapterKey}` and `manga-progress-imgur-${albumId}`,
\* as the sequence of the key's dash-separated segments (ids are sequences of
\* dash-free segments).
ProgressKey(kind, id, chapterKey) ==
    IF kind = "gist"
      THEN <<"manga", "progress", "gist">> \o id \o chapterKey
      ELSE <<"manga", "progress", "imgur">> \o id

\* ---------------------------------------------------------- reader session
\* No reader component is mounted.
Unmounted ==
    [status |-> "unmounted", kind |-> "none", id |-> <<>>, chapterKey |-> <<>>,
     totalPages |-> 0, currentPage |-> 1, viewMode |-> "single",
     savePending |-> FALSE, last |-> "none", from |-> 1, seen |-> Null,
     afterToggle |-> FALSE, leftPage |-> 0]

ReaderIdle ==
    /\ storage = EmptyMap
    /\ session = Unmounted

FetchInit ==
    /\ gistCache = EmptyMap
    /\ albumCache = EmptyMap
    /\ fetcher \in Kinds
    /\ timers = <<>>
    /\ clientId \in BOOLEAN
    /\ call = [p \in Callers |-> IdleCall]
    /\ lastOutcome = [k \in Kinds \X Ids |-> "none"]
    /\ lastStep = [op |-> "init"]
    /\ ReaderIdle

FetchNext ==
    \/ \E p \in Callers, id \in Ids : ImgurStart(p, id)
    \/ \E p \in Callers, resp \in ImgurResponses : ImgurResponse(p, resp)
    \/ \E p \in Callers, id \in Ids : GistStart(p, id)
    \/ \E p \in Callers, resp \in GistResponses : GistApiResponse(p, resp)
    \/ \E p \in Callers, raw \in RawResponses : GistRawResponse(p, raw)
    \/ TimerFire
    \/ Tick

FetchSpec == FetchInit /\ [][FetchNext]_vars

\* ------------------------------------------------------------ reader client
\* The identities a reader is opened on: a chapter of a gist, or an Imgur album.
Identities ==
    {[kind |-> "gist", id |-> <<"g1">>, chapterKey |-> <<"1">>],
     [kind |-> "gist", id |-> <<"g1">>, chapterKey |-> <<"2">>],
     [kind |-> "imgur", id |-> <<"al">>, chapterKey |-> <<>>],
     [kind |-> "imgur", id |-> <<"a2">>, chapterKey |-> <<>>]}

Min(a, b) == IF a < b THEN a ELSE b
Max(a, b) == IF a > b THEN a ELSE b

\* progress.page || 1
PageOr1(saved) == IF saved.kind = "record" /\ saved.page # 0 THEN saved.page ELSE 1
\* pages.length || 1
LengthOr1(n) == IF n = 0 THEN 1 ELSE n

PageToSetUnclamped(saved, n) == PageOr1(saved)
\* Math.max(1, Math.min(progress.page || 1, pages.length || 1))
PageToSet(saved, n) == Max(1, Min(PageOr1(saved), LengthOr1(n)))

\* (mutant) the mount effect runs after the first render's save effect and reads
\* the record that effect wrote
MountEffectAfterSave(st, key, n) ==
    [storage |-> st, pageToSet |-> PageToSet(Progress(1, n), n)]

MountEffectRemovesRead(st, key, n) ==
    [storage |-> RemoveItem(st, key), pageToSet |-> PageToSet(GetItem(st, key), n)]
\* The mount effect: read the stored progress, remove it if it does not parse,
\* and choose the page to show.
MountEffect(st, key, n) ==
    LET saved == GetItem(st, key)
    IN IF saved.kind = "null" THEN [storage |-> st, pageToSet |-> 1]
       ELSE IF saved.kind = "garbage"
         THEN [storage |-> RemoveItem(st, key), pageToSet |-> 1]
         ELSE [storage |-> st, pageToSet |-> PageToSet(saved, n)]

\* (mutant) the save effect's guard without its test of pages.length
ShouldSaveAnyLength(kind, id, chapterKey, n, currentPage) ==
    /\ id # <<>>
    /\ kind = "gist" => chapterKey # <<>>
    /\ currentPage > 0

\* the save effect's guard: gistId && chapterKey && pages.length > 0 && currentPage > 0
\* (albumId && ... in the Imgur reader)
ShouldSave(kind, id, chapterKey, n, currentPage) ==
    /\ id # <<>>
    /\ kind = "gist" => chapterKey # <<>>
    /\ n > 0
    /\ currentPage > 0

\* (mutant) the double view moves by three pages
PageIncrementTriple(viewMode) == IF viewMode = "double" THEN 3 ELSE 1
PageIncrementSingle(viewMode) == 1
\* getPageIncrement
PageIncrement(viewMode) == IF viewMode = "double" THEN 2 ELSE 1

\* (mutant) an Advance past the last page starts again at page 1
NextPageWraps(current, increment, totalPages) ==
    IF current + increment > totalPages THEN 1 ELSE current + increment
NextPageUnclamped(current, increment, totalPages) == current + increment
\* goToNextPage's updater: Math.min(current + increment, totalPages)
NextPage(current, increment, totalPages) == Min(current + increment, totalPages)

\* (mutant) a Retreat moves one page back in either view mode
PrevPageByOne(current, increment) == Max(1, current - 1)
PrevPageNoFloor(current, increment) == current - increment
\* goToPrevPage's updater: Math.max(1, current - increment)
PrevPage(current, increment) == Max(1, current - increment)

\* the localStorage key of the mounted reader
SessionKey == ProgressKey(session.kind, session.id, session.chapterKey)

\* localStorage.setItem threw inside an effect: nothing catches it, React
\* unmounts the tree.
Crashed(s) == [s EXCEPT !.status = "crashed", !.savePending = FALSE]

\* A reader component mounts over a resolved list of n pages (a page load, or
\* the router.push of a chapter switch).  The first render has currentPage = 1
\* and viewMode = 'single'; after it the mount effect and then the save effect
\* run, the save effect with the first render's currentPage.  setItem succeeds
\* (ok) or throws.
Mount(kind, id, chapterKey, n, ok) ==
    /\ kind = fetcher
    /\ ~session.savePending
    /\ LET key == ProgressKey(kind, id, chapterKey)
           m == MountEffect(storage, key, n)
           writes == ShouldSave(kind, id, chapterKey, n, 1)
           first == [status |-> "mounted", kind |-> kind, id |-> id,
                     chapterKey |-> chapterKey, totalPages |-> n, currentPage |-> 1,
                     viewMode |-> "single", savePending |-> FALSE, last |-> "mount",
                     from |-> 1, seen |-> GetItem(storage, key),
                     afterToggle |-> FALSE,
                     leftPage |-> IF session.status = "mounted" /\ key # SessionKey
                                    THEN session.currentPage ELSE 0]
       IN IF writes /\ ~ok
            THEN /\ storage' = m.storage
                 /\ session' = Crashed(first)
            ELSE /\ storage' = IF writes THEN SetItem(m.storage, key, Progress(1, n))
                                         ELSE m.storage
                 /\ session' = [first EXCEPT !.currentPage = m.pageToSet,
                                             !.savePending = (m.pageToSet # 1)]
    /\ UNCHANGED <<gistCache, albumCache, fetcher, timers, clientId, call, lastOutcome, lastStep>>

\* The save effect reruns after a render in which currentPage changed.
SaveEffect(ok) ==
    /\ session.status = "mounted"
    /\ session.savePending
    /\ LET key == ProgressKey(session.kind, session.id, session.chapterKey)
           writes == ShouldSave(session.kind, session.id, session.chapterKey,
                                session.totalPages, session.currentPage)
       IN IF writes /\ ~ok
            THEN /\ storage' = storage
                 /\ session' = Crashed(session)
            ELSE /\ storage' = IF writes
                                 THEN SetItem(storage, key,
                                              Progress(session.currentPage, session.totalPages))
                                 ELSE storage
                 /\ session' = [session EXCEPT !.savePending = FALSE]
    /\ UNCHANGED <<gistCache, albumCache, fetcher, timers, clientId, call, lastOutcome, lastStep>>

StateChangedAlways(prev, next) == TRUE
\* setCurrentPage with an updater: React rerenders, and reruns the effects that
\* depend on currentPage, only if the updater returned a different value.
StateChanged(prev, next) == next # prev

\* A navigation or toggle handler runs once the effects of the last render have run.
Settled == session.status = "mounted" /\ ~session.savePending

\* goToNextPage (the next button, or ArrowRight, which works with the button disabled)
goToNextPage ==
    /\ Settled
    /\ LET c == NextPage(session.currentPage, PageIncrement(session.viewMode),
                         session.totalPages)
       IN session' = [session EXCEPT !.currentPage = c,
                                     !.savePending = StateChanged(session.currentPage, c),
                                     !.last = "advance",
                                     !.from = session.currentPage,
                                     !.seen = Null,
                                     !.afterToggle = (session.last = "toggle"),
                                     !.leftPage = 0]
    /\ UNCHANGED <<gistCache, albumCache, fetcher, timers, clientId, call, lastOutcome,
                   lastStep, storage>>

\* goToPrevPage (the previous button, or ArrowLeft)
goToPrevPage ==
    /\ Settled
    /\ LET c == PrevPage(session.currentPage, PageIncrement(session.viewMode))
       IN session' = [session EXCEPT !.currentPage = c,
                                     !.savePending = StateChanged(session.currentPage, c),
                                     !.last = "retreat",
                                     !.from = session.currentPage,
                                     !.seen = Null,
                                     !.afterToggle = (session.last = "toggle"),
                                     !.leftPage = 0]
    /\ UNCHANGED <<gistCache, albumCache, fetcher, timers, clientId, call, lastOutcome,
                   lastStep, storage>>

\* toggleViewMode
toggleViewMode ==
    /\ Settled
    /\ session' = [session EXCEPT !.viewMode = IF @ = "single" THEN "double" ELSE "single",
                                  !.last = "toggle",
                                  !.from = session.currentPage,
                                  !.seen = Null,
                                  !.afterToggle = FALSE,
                                  !.leftPage = 0]
    /\ UNCHANGED <<gistCache, albumCache, fetcher, timers, clientId, call, lastOutcome,
                   lastStep, storage>>

getPageDisplayNoDegrade(totalPages, viewMode, currentPage) ==
    IF viewMode = "single"
      THEN ToString(currentPage) \o " / " \o ToString(totalPages)
      ELSE ToString(currentPage) \o "-" \o ToString(currentPage + 1)
             \o " / " \o ToString(totalPages)
\* getPageDisplay, the page-counter label
getPageDisplay(totalPages, viewMode, currentPage) ==
    IF totalPages = 0 THEN "0 / 0"
    ELSE IF viewMode = "single" \/ currentPage >= totalPages
      THEN ToString(currentPage) \o " / " \o ToString(totalPages)
      ELSE ToString(currentPage) \o "-" \o ToString(currentPage + 1)
             \o " / " \o ToString(totalPages)

\* the page list: pages[i], for a 0-based index i, is the URL of page i + 1, here
\* that page's number; off the list it is undefined, here 0
PageAt(n, i) == IF 0 <= i /\ i < n THEN i + 1 ELSE 0

\* the render condition shared by the single view and the double view
PageInRange(n, currentPage) == n > 0 /\ currentPage >= 1 /\ currentPage <= n

RightPageShownAlways(n, currentPage) == TRUE
\* the right page of the double view: currentPage + 1 <= totalPages
RightPageShown(n, currentPage) == currentPage + 1 <= n

\* The image display area: the pages whose images are rendered, left to right,
\* whether the empty right-hand box is rendered, and whether the "Loading page..."
\* text is.
Display(n, viewMode, currentPage) ==
    [images |->
        IF ~PageInRange(n, currentPage) THEN <<>>
        ELSE IF viewMode = "single" THEN <<PageAt(n, currentPage - 1)>>
        ELSE IF RightPageShown(n, currentPage)
          THEN <<PageAt(n, currentPage - 1), PageAt(n, currentPage)>>
          ELSE <<PageAt(n, currentPage - 1)>>,
     emptyBox |-> /\ PageInRange(n, currentPage) /\ viewMode = "double"
                  /\ currentPage + 1 > n,
     loading |-> (n = 0 \/ currentPage < 1 \/ currentPage > n)]

\* What localStorage holds when the first reader opens: nothing, or one item left
\* by an earlier visit (possibly of a longer page list) or by something else.
InitialItems == {Garbage, NoPage} \cup {Progress(p, MaxPages) : p \in -1..MaxPages + 1}
InitialStorages ==
    {EmptyMap} \cup
    {MapSet(EmptyMap, ProgressKey(i.kind, i.id, i.chapterKey), item) :
        i \in Identities, item \in InitialItems}

\* lengths of the page lists a reader is mounted over (initialPages.length)
PageCounts == {0, 1, 2, 3, MaxPages}

FetchIdle ==
    /\ gistCache = EmptyMap
    /\ albumCache = EmptyMap
    /\ fetcher \in Kinds
    /\ timers = <<>>
    /\ clientId = TRUE
    /\ call = [p \in Callers |-> IdleCall]
    /\ lastOutcome = [k \in Kinds \X Ids |-> "none"]
    /\ lastStep = [op |-> "init"]

ReaderInit ==
    /\ FetchIdle
    /\ storage \in {st \in InitialStorages : \A k \in DOMAIN st : k[3] = fetcher}
    /\ session = Unmounted

ReaderNext ==
    \/ \E i \in Identities, n \in PageCounts, ok \in BOOLEAN :
          Mount(i.kind, i.id, i.chapterKey, n, ok)
    \/ \E ok \in BOOLEAN : SaveEffect(ok)
    \/ goToNextPage
    \/ goToPrevPage
    \/ toggleViewMode

ReaderSpec == ReaderInit /\ [][ReaderNext]_vars

\* ------------------------------------------------------ a key held down
\* The reader's keydown listener while the user holds ArrowRight or ArrowLeft
\* down (the key repeats): Mount as in ReaderSpec, at most one toggle before
\* the first key event, then nothing but that key's handler and the effects it
\* schedules.  The held key is kept in lastStep, which no step changes.
Keys == {"ArrowRight", "ArrowLeft"}

HeldKey(key) == lastStep = [op |-> "hold", key |-> key]

RepeatInit ==
    /\ gistCache = EmptyMap
    /\ albumCache = EmptyMap
    /\ fetcher \in Kinds
    /\ timers = <<>>
    /\ clientId = TRUE
    /\ call = [p \in Callers |-> IdleCall]
    /\ lastOutcome = [k \in Kinds \X Ids |-> "none"]
    /\ lastStep \in {[op |-> "hold", key |-> key] : key \in Keys}
    /\ storage \in {st \in InitialStorages : \A k \in DOMAIN st : k[3] = fetcher}
    /\ session = Unmounted

\* the page load that mounts the reader
FirstMount ==
    /\ session.status = "unmounted"
    /\ \E i \in Identities, n \in PageCounts, ok \in BOOLEAN :
          Mount(i.kind, i.id, i.chapterKey, n, ok)

ToggleBeforeKeys == session.last = "mount" /\ toggleViewMode

RunSaveEffect == \E ok \in BOOLEAN : SaveEffect(ok)

\* handleKeyDown: if (e.key === "ArrowRight") goToNextPage()
KeyDownArrowRight == HeldKey("ArrowRight") /\ goToNextPage

\* handleKeyDown: if (e.key === "ArrowLeft") goToPrevPage()
KeyDownArrowLeft == HeldKey("ArrowLeft") /\ goToPrevPage

RepeatNext ==
    \/ FirstMount
    \/ ToggleBeforeKeys
    \/ RunSaveEffect
    \/ KeyDownArrowRight
    \/ KeyDownArrowLeft

\* React runs a pending effect, and a held key keeps sending keydown events.
RepeatSpec ==
    /\ RepeatInit /\ [][RepeatNext]_vars
    /\ WF_vars(RunSaveEffect)
    /\ WF_vars(KeyDownArrowRight)
    /\ WF_vars(KeyDownArrowLeft)

\* ------------------------------------------------------ there and back
\* The reader when the user, after the page load and at most one toggle,
\* presses ArrowRight once and then ArrowLeft once.
AdvanceOnce == session.last \in {"mount", "toggle"} /\ goToNextPage

RetreatAfterAdvance == session.last = "advance" /\ goToPrevPage

RoundTripNext ==
    \/ FirstMount
    \/ ToggleBeforeKeys
    \/ RunSaveEffect
    \/ AdvanceOnce
    \/ RetreatAfterAdvance

RoundTripSpec == ReaderInit /\ [][RoundTripNext]_vars

\* ---------------------------------------------------------- source resolver
\* A source path is kept as its sequence of tokens: "/" and "-" stand for
\* themselves, every other token is a run of letters and digits.
IsAlnum(tok) == tok \notin {"/", "-"}

\* the literal part of /\/proxy\/api\/imgur\/chapter\/([a-zA-Z0-9]+)\/?/
ImgurRoute == <<"/", "proxy", "/", "api", "/", "imgur", "/", "chapter", "/">>
\* the route the specification writes for it
AlbumRoute == <<"/", "album", "/", "chapter", "/">>

\* the source paths resolveSourcePages is called with: a route after nothing or
\* after a host, then an id segment, then nothing, a slash, or a further segment
PathPrefixes == {<<>>, <<"x">>}
IdSegments == {<<>>, <<"abc123">>, <<"abc", "123">>, <<"abc", "-", "123">>}
PathSuffixes == {<<>>, <<"/">>}
SourcePaths ==
    {pre \o route \o seg \o suf :
        pre \in PathPrefixes, route \in {ImgurRoute, AlbumRoute},
        seg \in IdSegments, suf \in PathSuffixes}

RECURSIVE Concat(_)
\* the string a sequence of tokens spells
Concat(toks) == IF toks = <<>> THEN "" ELSE Head(toks) \o Concat(Tail(toks))

AlnumRunFirst(toks) == IF toks # <<>> /\ IsAlnum(Head(toks)) THEN <<Head(toks)>> ELSE <<>>
RECURSIVE AlnumRun(_)
\* the longest run of letters and digits a token sequence starts with: [a-zA-Z0-9]+
AlnumRun(toks) ==
    IF toks # <<>> /\ IsAlnum(Head(toks))
      THEN <<Head(toks)>> \o AlnumRun(Tail(toks))
      ELSE <<>>

\* the literal `route` occurs in `path` at position i
RouteAt(path, route, i) ==
    /\ i + Len(route) - 1 <= Len(path)
    /\ SubSeq(path, i, i + Len(route) - 1) = route

\* the tokens after the occurrence of `route` at position i
AfterRoute(path, route, i) == SubSeq(path, i + Len(route), Len(path))

MatchRouteAnyChapter(path, route) ==
    LET r == <<"/", "chapter", "/">>
        S == {i \in 1..Len(path) : RouteAt(path, r, i) /\ AlnumRun(AfterRoute(path, r, i)) # <<>>}
    IN IF S = {} THEN [matched |-> FALSE, id |-> ""]
       ELSE LET i == CHOOSE j \in S : \A k \in S : j <= k
            IN [matched |-> TRUE, id |-> Concat(AlnumRun(AfterRoute(path, r, i)))]
\* sourcePath.match(regex) for a regex of the shape route([a-zA-Z0-9]+)\/? : the
\* leftmost position where the route is followed by a letter or digit, and the
\* capture group there
MatchRoute(path, route) ==
    LET S == {i \in 1..Len(path) :
                 RouteAt(path, route, i) /\ AlnumRun(AfterRoute(path, route, i)) # <<>>}
    IN IF S = {} THEN [matched |-> FALSE, id |-> ""]
       ELSE LET i == CHOOSE j \in S : \A k \in S : j <= k
            IN [matched |-> TRUE, id |-> Concat(AlnumRun(AfterRoute(path, route, i)))]

\* imgurMatch && imgurMatch[1]
ImgurMatch(path) == MatchRoute(path, ImgurRoute)

\* history of a step of resolveSourcePages: whether fetchImgurAlbumPages was
\* called and with which id, how the step left the call ("await", "return",
\* "throw"), the error thrown and what its message names, the network requests
\* issued, and the pages returned
ResolveNote(path, m, next, err, net, pages) ==
    [op |-> "resolve", path |-> path, delegated |-> m.matched, albumId |-> m.id,
     next |-> next, err |-> err,
     errPath |-> IF err = "Unsupported" THEN path ELSE <<>>,
     errAlbumId |-> IF err = "ResolveFailed" THEN m.id ELSE "",
     net |-> net, pages |-> pages]

\* resolveSourcePages up to its first await: no match throws the unsupported
\* error; a match calls fetchImgurAlbumPages, which returns a cached list,
\* throws (the catch wraps the error), or issues its request.
ResolveStart(p, path) ==
    /\ call[p].pc = "idle"
    /\ LET m == ImgurMatch(path)
           o == ImgurCallStart(albumCache, m.id, clientId)
       IN IF ~m.matched
            THEN /\ call' = call
                 /\ lastStep' = ResolveNote(path, m, "throw", "Unsupported", 0, <<>>)
            ELSE /\ o.next = "await" => MayStart
                 /\ call' = [call EXCEPT ![p] =
                               IF o.next = "await" THEN Awaiting("api", "imgur", m.id)
                                                   ELSE IdleCall]
                 /\ lastStep' = ResolveNote(path, m, o.next,
                                            IF o.next = "throw" THEN "ResolveFailed" ELSE "",
                                            o.net, o.val)
    /\ UNCHANGED <<gistCache, albumCache, fetcher, timers, clientId, lastOutcome,
                   storage, session>>

\* resolveSourcePages resumed: fetchImgurAlbumPages finishes with the endpoint's
\* response and the resolver returns its pages or wraps its error.
ResolveResponse(p, resp) ==
    /\ call[p].pc = "api" /\ call[p].kind = "imgur"
    /\ LET id == call[p].id
           o == ImgurTry(resp)
           store == ImgurShouldCache(o)
       IN /\ albumCache' = IF store THEN MapSet(albumCache, id, o.pages) ELSE albumCache
          /\ timers' = IF store THEN ScheduleDelete(timers, "imgur", id) ELSE timers
          /\ call' = [call EXCEPT ![p] = IdleCall]
          /\ lastStep' = [op |-> "resolved", albumId |-> id,
                          next |-> IF o.threw THEN "throw" ELSE "return",
                          err |-> IF o.threw THEN "ResolveFailed" ELSE "",
                          errAlbumId |-> IF o.threw THEN id ELSE "",
                          pages |-> IF o.threw THEN <<>> ELSE o.pages]
    /\ UNCHANGED <<gistCache, fetcher, clientId, lastOutcome, storage, session>>

\* the request that resolves a chapter's source path
ResolveCallers == {"c1"}

ResolveInit ==
    /\ FetchInit
    /\ fetcher = "imgur"

ResolveNext ==
    \/ \E p \in ResolveCallers, path \in SourcePaths : ResolveStart(p, path)
    \/ \E p \in ResolveCallers, resp \in ImgurResponses : ResolveResponse(p, resp)
    \/ TimerFire
    \/ Tick

ResolveSpec == ResolveInit /\ [][ResolveNext]_vars

\* -------------------------------------------------------- gist reader page
\* manifests with a chapter next to chapter "1" that cannot be read: a group
\* that is an empty array, a group with an entry that is not a URL; and a
\* manifest whose chapter has two groups
ChapterEmptyGroup ==
    JObj(<< <<"title", JStr("c2")>>, <<"groups", JObj(<< <<"g", JArr(<<>>)>> >>)>> >>)
ChapterNonUrl ==
    JObj(<< <<"title", JStr("c2")>>,
            <<"groups", JObj(<< <<"g", JArr(<<JStr("page one")>>)>> >>)>> >>)
ChapterTwoGroups ==
    JObj(<< <<"title", JStr("c1")>>,
            <<"groups", JObj(<< <<"scans", JArr(<<JStr("https://h/2.png"),
                                                  JStr("https://h/1.png")>>)>>,
                                <<"raws", JArr(<<JStr("https://h/cover.png")>>)>> >>)>> >>)

DocEmptyGroup ==
    JObj(<< <<"title", JStr("T")>>,
            <<"chapters", JObj(<< <<"1", ChapterOne>>, <<"2", ChapterEmptyGroup>> >>)>> >>)
DocNonUrl ==
    JObj(<< <<"title", JStr("T")>>,
            <<"chapters", JObj(<< <<"1", ChapterOne>>, <<"2", ChapterNonUrl>> >>)>> >>)
DocTwoGroups ==
    JObj(<< <<"title", JStr("T")>>, <<"chapters", JObj(<< <<"1", ChapterTwoGroups>> >>)>> >>)

PageDocs == {DocGoodExtra, DocNoTitle, DocEmptyGroup, DocNonUrl, DocTwoGroups}

\* what the API and the raw_url answer to the page's fetch
PageFiles ==
    {FileRaw, FileReadme} \cup
    { [filename |-> <<"m", "json">>, raw_url |-> FALSE, content |-> TextOf(d)] : d \in PageDocs }
PageGistResponses ==
    { r \in [status : {200, 404}, hasFiles : {TRUE}, files : {<<>>} \cup {<<f>> : f \in PageFiles}] :
        ~ResponseOk(r.status) => r.files = <<>> }
PageRawResponses == [ok : BOOLEAN, text : {TextMalformed, TextOf(DocTwoGroups)}]

\* the chapter segment of the route: empty, a chapter of the manifests, or not
PageChapters == {"", "1", "2", "9"}

\* Object.keys(obj) of an object whose keys are not integers: in written order
PropKeys(o) == [i \in 1..Len(o.props) |-> o.props[i][1]]

\* sourceData.every(item => typeof item === 'string')
EveryString(items) == \A i \in 1..Len(items) : items[i].t = "string"

\* (mutant) the group the page reads is the last one
LastGroupName(groupKeys) == groupKeys[Len(groupKeys)]

\* const firstGroupName = groupKeys[0]
FirstGroupName(groupKeys) == groupKeys[1]

ErrorScreen(title, message) ==
    [screen |-> "error", title |-> title, error |-> message, pages |-> <<>>]

\* <GistReaderClient initialPages={pages} ... />
ReaderScreen(pages) ==
    [screen |-> "reader", title |-> "", error |-> "", pages |-> pages]

\* GistReaderPage after fetchGistConfig has returned the config or thrown: the
\* rest of the try block, the catch, and the screen that is rendered
GistReaderPageRender(fetch, chapterKey) ==
    IF fetch.threw THEN ErrorScreen("Error Loading Chapter", fetch.err)
    ELSE LET chapterData == Prop(Prop(fetch.val, "chapters"), chapterKey)
         IN  IF chapterData.t = "undefined"
               THEN ErrorScreen("Error Loading Chapter", "ChapterNotFound")
             ELSE LET groups == Prop(chapterData, "groups")
                      groupKeys == PropKeys(groups)
                  IN  IF Len(groupKeys) = 0
                        THEN ErrorScreen("Error Loading Chapter", "NoGroups")
                      ELSE LET sourceData == Prop(groups, FirstGroupName(groupKeys))
                           IN  IF /\ sourceData.t = "array"
                                  /\ Len(sourceData.items) > 0
                                  /\ EveryString(sourceData.items)
                                 THEN ReaderScreen([i \in 1..Len(sourceData.items) |->
                                                       sourceData.items[i].s])
                                 ELSE ErrorScreen("Error Loading Chapter", "InvalidSource")

\* history of a step in which the page is rendered: the route, the fetch's
\* outcome (text: the file text it parsed, TextEmpty if none), and the screen
PageNote(id, chapterKey, text, fetch, view) ==
    [op |-> "page", id |-> id, chapter |-> chapterKey, text |-> text,
     fetchErr |-> IF fetch.threw THEN fetch.err ELSE "",
     config |-> IF fetch.threw THEN JUndefined ELSE fetch.val,
     screen |-> view.screen, title |-> view.title, error |-> view.error,
     pages |-> view.pages]

Fetched(val) == [threw |-> FALSE, err |-> "", val |-> val]
FetchThrew(err) == [threw |-> TRUE, err |-> err, val |-> JUndefined]

\* GistReaderPage up to its first await: the parameter check, then
\* fetchGistConfig, which returns the cached config or issues its request
PageStart(p, id, chapterKey) ==
    /\ fetcher = "gist"
    /\ call[p].pc = "idle"
    /\ LET o == GistCallStart(gistCache, id)
       IN  IF chapterKey = ""
             THEN /\ call' = call
                  /\ lastStep' = PageNote(id, chapterKey, TextEmpty, FetchThrew(""),
                                          ErrorScreen("Invalid Parameters", ""))
           ELSE IF o.next = "return"
             THEN /\ call' = call
                  /\ lastStep' = PageNote(id, chapterKey, TextEmpty, Fetched(o.val),
                                          GistReaderPageRender(Fetched(o.val), chapterKey))
           ELSE /\ MayStart
                /\ call' = [call EXCEPT ![p] =
                               Awaiting("api", "gist", id) @@ [chapter |-> chapterKey]]
                /\ lastStep' = [op |-> "pageWait", id |-> id, chapter |-> chapterKey]
    /\ UNCHANGED <<gistCache, albumCache, fetcher, timers, clientId, lastOutcome,
                   storage, session>>

\* fetchGistConfig throws inside the page: the page renders its error screen
PageFail(p, err) ==
    /\ call' = [call EXCEPT ![p] = IdleCall]
    /\ lastStep' = PageNote(call[p].id, call[p].chapter, TextEmpty, FetchThrew(err),
                            GistReaderPageRender(FetchThrew(err), call[p].chapter))
    /\ UNCHANGED <<gistCache, timers>>

\* fetchGistConfig parses and validates the file text, caches and returns the
\* config or throws, and the page goes on with the outcome
PageFinish(p, text) ==
    LET id == call[p].id
        o == ParseAndValidate(text)
    IN  /\ gistCache' = IF o.threw THEN gistCache ELSE MapSet(gistCache, id, o.val)
        /\ timers' = IF o.threw THEN timers ELSE ScheduleDelete(timers, "gist", id)
        /\ call' = [call EXCEPT ![p] = IdleCall]
        /\ lastStep' = PageNote(id, call[p].chapter, text, o,
                                GistReaderPageRender(o, call[p].chapter))

\* the page resumed with the API's response
PageApiResponse(p, resp) ==
    /\ call[p].pc = "api" /\ call[p].kind = "gist"
    /\ LET a == GistAfterApi(resp)
       IN CASE a.next = "throw" -> PageFail(p, a.err)
            [] a.next = "raw" ->
                 /\ call' = [call EXCEPT ![p].pc = "raw"]
                 /\ lastStep' = [op |-> "pageWait", id |-> call[p].id,
                                 chapter |-> call[p].chapter]
                 /\ UNCHANGED <<gistCache, timers>>
            [] a.next = "content" -> PageFinish(p, a.text)
    /\ UNCHANGED <<albumCache, fetcher, clientId, lastOutcome, storage, session>>

\* the page resumed with the raw_url's response
PageRawResponse(p, raw) ==
    /\ call[p].pc = "raw" /\ call[p].kind = "gist"
    /\ IF raw.ok THEN PageFinish(p, raw.text) ELSE PageFail(p, "RawFetchFailed")
    /\ UNCHANGED <<albumCache, fetcher, clientId, lastOutcome, storage, session>>

\* the request that renders the page
PageCallers == {"c1"}

PageInit ==
    /\ FetchInit
    /\ fetcher = "gist"
    /\ clientId = TRUE

PageNext ==
    \/ \E p \in PageCallers, id \in Ids, ck \in PageChapters : PageStart(p, id, ck)
    \/ \E p \in PageCallers, resp \in PageGistResponses : PageApiResponse(p, resp)
    \/ \E p \in PageCallers, raw \in PageRawResponses : PageRawResponse(p, raw)
    \/ TimerFire
    \/ Tick

PageSpec == PageInit /\ [][PageNext]_vars

\* ----------------------------------------------------------- gist info page
\* GistInfoPage: the client component that loads a gist's manifest with
\* loadConfig, from its effect on [gistId] and from the Retry button.  The
\* component's state is kept in session; a load suspended at
\* await fetchGistConfig(id) is a suspended call of its caller.

\* the gistId route parameter ('' when it is not a string)
InfoIds == {"", "a", "b"}

\* what the API and the raw_url answer to the page's loads
InfoGistResponses ==
    { r \in [status : {200, 404}, hasFiles : {TRUE},
              files : {<<>>, <<FileUpper>>, <<FileExtra>>, <<FileNoTitle>>, <<FileRaw>>}] :
        ~ResponseOk(r.status) => r.files = <<>> }
InfoRawResponses == [ok : BOOLEAN, text : {TextMalformed, TextOf(DocGood)}]

\* useState(null), useState(true), useState(null): the component before its
\* effect has run.  newest (history) is the caller whose load started last,
\* newestEnd, newestErr and newestVal how that load ended.
InfoPageOf(id) ==
    [status |-> "info", gistId |-> id,
     config |-> JUndefined, isLoading |-> TRUE, error |-> "",
     newest |-> "none", newestEnd |-> "none", newestErr |-> "", newestVal |-> JUndefined]

\* the render states: loading indicator, error screen, "No configuration data
\* found.", or the manifest
InfoScreen(s) ==
    IF s.isLoading THEN [screen |-> "loading", error |-> "", config |-> JUndefined]
    ELSE IF s.error # "" THEN [screen |-> "error", error |-> s.error, config |-> JUndefined]
    ELSE IF s.config = JUndefined
      THEN [screen |-> "empty", error |-> "", config |-> JUndefined]
    ELSE [screen |-> "manifest", error |-> "", config |-> s.config]

\* loadConfig(id) up to its await, called by p in component state s: the check
\* of id, setIsLoading(true), setError(null), then fetchGistConfig(id), which
\* returns the cached config or issues its request
loadConfig(s, p, id) ==
    /\ fetcher = "gist"
    /\ call[p].pc = "idle"
    /\ LET o == GistCallStart(gistCache, id)
       IN  IF id = ""
             THEN /\ call' = call
                  /\ session' = [s EXCEPT !.error = "InvalidGistId", !.isLoading = FALSE,
                                          !.newest = p, !.newestEnd = "error",
                                          !.newestErr = "InvalidGistId",
                                          !.newestVal = JUndefined]
           ELSE IF o.next = "return"
             THEN /\ call' = call
                  /\ session' = [s EXCEPT !.config = o.val, !.error = "",
                                          !.isLoading = FALSE,
                                          !.newest = p, !.newestEnd = "value",
                                          !.newestErr = "", !.newestVal = o.val]
           ELSE /\ MayStart
                /\ call' = [call EXCEPT ![p] = Awaiting("api", "gist", id)]
                /\ session' = [s EXCEPT !.error = "", !.isLoading = TRUE,
                                        !.newest = p, !.newestEnd = "pending",
                                        !.newestErr = "", !.newestVal = JUndefined]
    /\ lastStep' = [op |-> "load", id |-> id]
    /\ UNCHANGED <<gistCache, albumCache, fetcher, timers, clientId, lastOutcome, storage>>

\* useEffect(() => { loadConfig(gistId) }, [gistId]): after the first render,
\* and after a render with another gistId
LoadEffect(p, id) ==
    /\ session.status = "info"
    /\ IF session.newest = "none" THEN id = session.gistId ELSE id # session.gistId
    /\ loadConfig([session EXCEPT !.gistId = id], p, id)

\* the Retry button of the error screen: onClick={() => loadConfig(gistId)}
Retry(p) ==
    /\ session.status = "info"
    /\ InfoScreen(session).screen = "error"
    /\ loadConfig(session, p, session.gistId)

\* loadConfig resumed by p with the outcome o of fetchGistConfig:
\* setConfig(fetchedConfig) or, in the catch, setError(message); finally
\* setIsLoading(false)
LoadEnd(p, o) ==
    /\ call' = [call EXCEPT ![p] = IdleCall]
    /\ session' = [session EXCEPT
                      !.config = IF o.threw THEN @ ELSE o.val,
                      !.error = IF o.threw THEN o.err ELSE @,
                      !.isLoading = FALSE,
                      !.newestEnd = IF p # session.newest THEN @
                                    ELSE IF o.threw THEN "error" ELSE "value",
                      !.newestErr = IF p = session.newest /\ o.threw THEN o.err ELSE @,
                      !.newestVal = IF p = session.newest /\ ~o.threw THEN o.val ELSE @]
    /\ lastStep' = [op |-> "loaded", caller |-> p, threw |-> o.threw]

\* fetchGistConfig parses and validates the file text, caches and returns the
\* config or throws, and loadConfig goes on with the outcome
LoadFinish(p, text) ==
    LET id == call[p].id
        o == ParseAndValidate(text)
    IN  /\ gistCache' = IF o.threw THEN gistCache ELSE MapSet(gistCache, id, o.val)
        /\ timers' = IF o.threw THEN timers ELSE ScheduleDelete(timers, "gist", id)
        /\ LoadEnd(p, o)

\* the load of p resumed with the API's response
LoadApiResponse(p, resp) ==
    /\ session.status = "info"
    /\ call[p].pc = "api" /\ call[p].kind = "gist"
    /\ LET a == GistAfterApi(resp)
       IN CASE a.next = "throw" ->
                 /\ LoadEnd(p, FetchThrew(a.err))
                 /\ UNCHANGED <<gistCache, timers>>
            [] a.next = "raw" ->
                 /\ call' = [call EXCEPT ![p].pc = "raw"]
                 /\ lastStep' = [op |-> "loadWait", caller |-> p]
                 /\ UNCHANGED <<gistCache, timers, session>>
            [] a.next = "content" -> LoadFinish(p, a.text)
    /\ UNCHANGED <<albumCache, fetcher, clientId, lastOutcome, storage>>

\* the load of p resumed with the raw_url's response
LoadRawResponse(p, raw) ==
    /\ session.status = "info"
    /\ call[p].pc = "raw" /\ call[p].kind = "gist"
    /\ IF raw.ok THEN LoadFinish(p, raw.text)
                 ELSE /\ LoadEnd(p, FetchThrew("RawFetchFailed"))
                      /\ UNCHANGED <<gistCache, timers>>
    /\ UNCHANGED <<albumCache, fetcher, clientId, lastOutcome, storage>>

InfoInit ==
    /\ gistCache = EmptyMap
    /\ albumCache = EmptyMap
    /\ fetcher = "gist"
    /\ timers = <<>>
    /\ clientId = TRUE
    /\ call = [p \in Callers |-> IdleCall]
    /\ lastOutcome = [k \in Kinds \X Ids |-> "none"]
    /\ lastStep = [op |-> "init"]
    /\ storage = EmptyMap
    /\ session \in {InfoPageOf(id) : id \in InfoIds}

InfoNext ==
    \/ \E p \in Callers, id \in InfoIds : LoadEffect(p, id)
    \/ \E p \in Callers : Retry(p)
    \/ \E p \in Callers, resp \in InfoGistResponses : LoadApiResponse(p, resp)
    \/ \E p \in Callers, raw \in InfoRawResponses : LoadRawResponse(p, raw)
    \/ TimerFire
    \/ Tick

InfoSpec == InfoInit /\ [][InfoNext]_vars

\* ------------------------------------------------------------ chapter keys
\* most chapters in one manifest
MaxChapters == 3

\* a chapter key is a string, written as the sequence of its characters
Digits == {"0", "1", "2", "5", "9"}

DigitValue(c) ==
    CASE c = "0" -> 0 [] c = "1" -> 1 [] c = "2" -> 2 [] c = "5" -> 5 [] c = "9" -> 9

\* the keys a manifest's chapters object is written with
ChapterNames ==
    { <<"1", "0">>, <<"2">>, <<"9">>, <<"a">>, <<"b">>, <<"1", "0", "x">>,
      <<"1", ".", "5">> }

RECURSIVE DigitRun(_)
\* the longest run of decimal digits a string starts with
DigitRun(s) ==
    IF s # <<>> /\ Head(s) \in Digits THEN <<Head(s)>> \o DigitRun(Tail(s)) ELSE <<>>

RECURSIVE DecimalValue(_)
DecimalValue(ds) ==
    IF ds = <<>> THEN 0
    ELSE 10 * DecimalValue(SubSeq(ds, 1, Len(ds) - 1)) + DigitValue(ds[Len(ds)])

RECURSIVE Pow10(_)
Pow10(n) == IF n = 0 THEN 1 ELSE 10 * Pow10(n - 1)

\* a JavaScript number as a fraction num / den, or NaN
NaN == [nan |-> TRUE, num |-> 0, den |-> 1]

\* parseFloat reads the longest prefix that is a decimal literal (digits, then
\* optionally a point and digits) and ignores whatever follows it; the result
\* is NaN only when that prefix holds no digit
parseFloat(s) ==
    LET int  == DigitRun(s)
        rest == SubSeq(s, Len(int) + 1, Len(s))
        frac == IF rest # <<>> /\ Head(rest) = "." THEN DigitRun(Tail(rest)) ELSE <<>>
    IN  IF int = <<>> /\ frac = <<>> THEN NaN
        ELSE [nan |-> FALSE, num |-> DecimalValue(int \o frac), den |-> Pow10(Len(frac))]

isNaN(v) == v.nan

Sign(n) == IF n < 0 THEN -1 ELSE IF n > 0 THEN 1 ELSE 0

\* the sign of numA - numB
NumberDiff(numA, numB) == Sign(numA.num * numB.den - numB.num * numA.den)

\* collation order of a character: punctuation, then digits, then letters
CollationRank(c) ==
    CASE c = "." -> 0
      [] c \in Digits -> 1 + DigitValue(c)
      [] c = "a" -> 11
      [] c = "b" -> 12
      [] c = "x" -> 13

RECURSIVE localeCompare(_, _)
localeCompare(a, b) ==
    IF a = <<>> THEN (IF b = <<>> THEN 0 ELSE -1)
    ELSE IF b = <<>> THEN 1
    ELSE IF Head(a) # Head(b)
         THEN Sign(CollationRank(Head(a)) - CollationRank(Head(b)))
    ELSE localeCompare(Tail(a), Tail(b))

\* the comparator handed to keys.sort
CompareKeys(a, b) ==
    LET numA == parseFloat(a)
        numB == parseFloat(b)
    IN  IF ~isNaN(numA) /\ ~isNaN(numB) THEN NumberDiff(numA, numB)
        ELSE localeCompare(a, b)

RECURSIVE InsertKey(_, _)
\* x goes after every element it does not compare below (the sort is stable)
InsertKey(x, sorted) ==
    IF sorted = <<>> THEN <<x>>
    ELSE IF CompareKeys(x, sorted[Len(sorted)]) < 0
         THEN InsertKey(x, SubSeq(sorted, 1, Len(sorted) - 1)) \o <<sorted[Len(sorted)]>>
    ELSE sorted \o <<x>>

RECURSIVE sortChapterKeys(_)
sortChapterKeys(keys) ==
    IF keys = <<>> THEN <<>>
    ELSE InsertKey(keys[Len(keys)], sortChapterKeys(SubSeq(keys, 1, Len(keys) - 1)))

\* a key that is the canonical form of a non-negative integer
IsArrayIndex(key) ==
    /\ key # <<>>
    /\ DigitRun(key) = key
    /\ (Head(key) = "0" => Len(key) = 1)

\* Object.keys lists integer keys first, in ascending order, then the other
\* keys in the order they were written
ObjectKeys(written) ==
    SortSeq(SelectSeq(written, IsArrayIndex),
            LAMBDA a, b : DecimalValue(a) < DecimalValue(b))
        \o SelectSeq(written, LAMBDA k : ~IsArrayIndex(k))

\* the chapters objects of a manifest, by the order their keys were written in
ChapterObjects ==
    { w \in UNION { [1..n -> ChapterNames] : n \in 0..MaxChapters } :
        \A i, j \in DOMAIN w : i # j => w[i] # w[j] }

\* the reader is handed a manifest
SortInit ==
    /\ gistCache = EmptyMap
    /\ albumCache = EmptyMap
    /\ fetcher = "gist"
    /\ timers = <<>>
    /\ clientId = TRUE
    /\ call = [p \in Callers |-> IdleCall]
    /\ lastOutcome = [k \in Kinds \X Ids |-> "none"]
    /\ lastStep \in { [op |-> "config", chapters |-> w] : w \in ChapterObjects }
    /\ ReaderIdle

\* const keys = sortChapterKeys(Object.keys(config.chapters))
SortChapters ==
    /\ lastStep.op = "config"
    /\ LET keys == ObjectKeys(lastStep.chapters)
       IN  lastStep' = [op |-> "sorted", chapters |-> lastStep.chapters,
                        keys |-> keys, sorted |-> sortChapterKeys(keys)]
    /\ UNCHANGED <<gistCache, albumCache, fetcher, timers, clientId, call, lastOutcome,
                   storage, session>>

SortNext == SortChapters

SortSpec == SortInit /\ [][SortNext]_vars

\* ================================================================ fetchers
\* two callers are suspended inside a fetch of the same key
Overlapping(p, q) ==
    /\ p # q /\ InFlight(p) /\ InFlight(q)
    /\ call[p].kind = call[q].kind /\ call[p].id = call[q].id

\* C1 (as claimed): once a fetch(id) has succeeded and stored its entry, every
\* fetch(id) that starts while the deletion scheduled at that insertion is not
\* yet due is answered from the cache: it returns the stored value and issues
\* no network call.
C1_HitUntilScheduledDeletion ==
    (lastStep.op = "start" /\ lastStep.ownLeft > 0)
        => (lastStep.hit /\ lastStep.served /\ lastStep.net = 0)

\* C2 (as claimed): after a fetch(id) that ended in an error, the failing call
\* wrote nothing, and the next fetch(id) attempts the network again.
C2_RetryAlwaysHitsNetwork ==
    /\ (lastStep.op = "end" /\ lastStep.tag = "error") => ~lastStep.wrote
    /\ (lastStep.op = "start" /\ lastStep.prev = "error") => lastStep.net = 1

\* a step in which a call of a fetcher ends by throwing
EndsInError(note) ==
    \/ note.op = "end" /\ note.tag = "error"
    \/ note.op = "start" /\ note.next = "throw"

\* C2 (amended): a call that ends in an error leaves both caches and the pending
\* deletions as they were; and the next fetch(id) after a failed one, when no
\* other call has stored an entry for the id, runs the miss path again: it issues
\* the network request, or, with the credential missing, throws the
\* missing-credential error again without one.
C2_FailureNotCached ==
    [][ /\ EndsInError(lastStep') =>
             (gistCache' = gistCache /\ albumCache' = albumCache /\ timers' = timers)
        /\ (lastStep'.op = "start" /\ lastStep'.prev = "error" /\ ~lastStep'.present) =>
             \/ lastStep'.next = "await" /\ lastStep'.net = 1
             \/ /\ lastStep'.kind = "imgur" /\ ~clientId
                /\ lastStep'.next = "throw" /\ lastStep'.err = "AuthError" /\ lastStep'.net = 0
      ]_vars

\* C2 witness: the fetch before failed and stored nothing, and the retry has
\* issued its network request.
C2_Witness ==
    /\ lastStep.op = "start" /\ lastStep.prev = "error"
    /\ ~lastStep.present /\ lastStep.net = 1
    /\ \E p \in Callers :
          call[p] = Awaiting("api", lastStep.kind, lastStep.id)

\* C3 (as claimed): a fetch(id) begun while another fetch(id) is suspended at its
\* network call issues no network call of its own: no two calls are ever in
\* flight for one key.
C3_OneNetworkCallPerKey == \A p, q \in Callers : ~Overlapping(p, q)

\* C4 (as claimed): when a scheduled deletion removes an entry, a full TTL has
\* passed since the insertion that wrote the entry.
C4_NoEarlyRemoval ==
    (lastStep.op = "delete" /\ lastStep.removed) => lastStep.owed = 0

\* C5 (as claimed): an entry leaves the cache by the deletion scheduled at its own
\* insertion, and a fetch(id) started once it is gone issues a network call.
C5_RemovedByOwnDeletion ==
    /\ (lastStep.op = "delete" /\ lastStep.removed) => lastStep.own
    /\ (lastStep.op = "start" /\ ~lastStep.present /\ lastStep.prev = "value")
          => lastStep.net = 1

\* ================================================================== reader
\* C6: in a session over a list of at least one page, after Mount and any
\* sequence of Advance, Retreat and toggle, 1 <= current page <= totalPages.
C6_CurrentPageInRange ==
    (session.status = "mounted" /\ session.totalPages >= 1)
        => (1 <= session.currentPage /\ session.currentPage <= session.totalPages)

\* C6 witness: in double mode over three pages, mounted from a stored page, a
\* Retreat from page 2 has been clamped to page 1.
C6_Witness ==
    /\ session.status = "mounted" /\ session.totalPages = 3
    /\ session.viewMode = "double" /\ session.last = "retreat"
    /\ session.from = 2 /\ session.currentPage = 1

\* C7 (as claimed): with totalPages = 10 in double mode, an Advance from page 9
\* leaves the current page at 9 and never yields 11, and a Retreat from page 1
\* leaves it at 1.
C7_AdvanceFromNineStaysAtNine ==
    (session.status = "mounted" /\ session.totalPages = 10 /\ session.viewMode = "double")
        => /\ (session.last = "advance" /\ session.from = 9) => session.currentPage = 9
           /\ session.last = "advance" => session.currentPage # 11
           /\ (session.last = "retreat" /\ session.from = 1) => session.currentPage = 1

\* C7 (amended): in double mode over a list of at least one page (totalPages = 10
\* included), an Advance from the page before the last or from the last page
\* leaves the current page at the last page (from 9 of 10: page 10, and every
\* further Advance stays at 10), no Advance yields a page past the last, and a
\* Retreat from page 1 leaves the current page at 1.
C7_AdvanceStopsAtLastPage ==
    (session.status = "mounted" /\ session.totalPages >= 1 /\ session.viewMode = "double")
        => /\ (session.last = "advance" /\ session.from >= session.totalPages - 1)
                 => session.currentPage = session.totalPages
           /\ session.last = "advance" => session.currentPage <= session.totalPages
           /\ (session.last = "retreat" /\ session.from = 1) => session.currentPage = 1

\* C7 witness: ten pages, double mode, the Advance from page 9 has run and the
\* current page is 10.
C7_Witness ==
    /\ session.status = "mounted" /\ session.totalPages = 10
    /\ session.viewMode = "double" /\ session.last = "advance"
    /\ session.from = 9 /\ session.currentPage = 10

\* C8: Mount over n >= 1 pages seeds the current page from the record stored
\* under the session's key: page p gives p if 1 <= p <= n, n if p > n, 1 if
\* p < 1; no stored item gives 1.
C8_MountSeedsClampedPage ==
    (session.status = "mounted" /\ session.last = "mount" /\ session.totalPages >= 1)
        => /\ session.seen.kind = "null" => session.currentPage = 1
           /\ session.seen.kind = "record" =>
                 LET p == session.seen.page
                     n == session.totalPages
                 IN /\ (1 <= p /\ p <= n) => session.currentPage = p
                    /\ p > n => session.currentPage = n
                    /\ p < 1 => session.currentPage = 1

\* C8 witness: a reader mounted over three pages found stored page 5 and shows
\* page 3.
C8_Witness ==
    /\ session.status = "mounted" /\ session.last = "mount"
    /\ session.seen.kind = "record" /\ session.seen.page = 5
    /\ session.totalPages = 3 /\ session.currentPage = 3

\* C9 (as claimed): once the effects that follow an Advance or Retreat that
\* changed the current page have run, the item under the session's key is the
\* record with page = current page and totalPages = length of the page list.
C9_MoveIsPersisted ==
    (/\ session.status = "mounted" /\ ~session.savePending
     /\ session.last \in {"advance", "retreat"}
     /\ session.from # session.currentPage)
        => GetItem(storage, SessionKey) = Progress(session.currentPage, session.totalPages)

\* C10 (as claimed): a reader that mounted with nothing stored under its key and
\* has not navigated leaves localStorage without an item under that key.
C10_MountCreatesNoRecord ==
    (session.status = "mounted" /\ session.last = "mount" /\ session.seen.kind = "null")
        => ~MapHas(storage, SessionKey)

\* C11 (as claimed): a navigation whose progress write fails still completes
\* and the session stays navigable: no Advance or Retreat ends with the reader
\* torn down.
C11_WriteFailureSwallowed ==
    session.last \in {"advance", "retreat"} => session.status # "crashed"

\* C12: no step of a reading session deletes a stored progress record: every key
\* that holds a record before the step holds a record after it.
C12_RecordsNeverDeleted ==
    [][\A k \in DOMAIN storage :
          storage[k].kind = "record" => (MapHas(storage', k) /\ storage'[k].kind = "record")
      ]_vars

\* C12 witness: a reader has mounted over an empty page list, so its save effect
\* wrote nothing, and the record its mount effect read is still stored.
C12_Witness ==
    /\ session.status = "mounted" /\ session.last = "mount"
    /\ session.totalPages = 0 /\ session.seen.kind = "record"
    /\ GetItem(storage, SessionKey) = session.seen

\* C13: a Retreat at page 1, and an Advance at the last page of a list of at
\* least one page, change neither the current page nor the view mode nor
\* localStorage, schedule no write (so lastRead stays as it was) and leave the
\* reader mounted.
C13_NoOpAtTheEnds ==
    [][ (/\ Settled
         /\ \/ session'.last = "retreat" /\ session.currentPage = 1
            \/ /\ session'.last = "advance" /\ session.totalPages >= 1
               /\ session.currentPage = session.totalPages)
        => /\ session'.currentPage = session.currentPage
           /\ session'.viewMode = session.viewMode
           /\ storage' = storage
           /\ ~session'.savePending
           /\ session'.status = "mounted"
      ]_vars

\* C13 witness: an Advance has run at the last page of a list of three pages.
C13_Witness ==
    /\ session.status = "mounted" /\ session.last = "advance"
    /\ session.totalPages = 3 /\ session.from = 3 /\ session.currentPage = 3
    /\ ~session.savePending

\* C14: a toggle flips the view mode and changes neither the current page nor
\* localStorage and schedules no write; and the first Advance or Retreat after a
\* toggle moves by the step of the mode toggled to (1 in single, 2 in double),
\* stopping at totalPages and at 1.
C14_ToggleKeepsPage ==
    [][ Settled =>
          /\ session'.last = "toggle" =>
                /\ session'.viewMode = (IF session.viewMode = "single" THEN "double"
                                                                        ELSE "single")
                /\ session'.currentPage = session.currentPage
                /\ storage' = storage
                /\ ~session'.savePending
          /\ session.last = "toggle" =>
                LET step == IF session.viewMode = "double" THEN 2 ELSE 1
                    c == session.currentPage
                    n == session.totalPages
                IN /\ session'.last = "advance" =>
                        session'.currentPage = (IF c + step <= n THEN c + step ELSE n)
                   /\ session'.last = "retreat" =>
                        session'.currentPage = (IF c - step >= 1 THEN c - step ELSE 1)
      ]_vars

\* C14 witness: the first Advance after a toggle to double mode has moved the
\* reader from page 1 to page 3.
C14_Witness ==
    /\ session.status = "mounted" /\ session.afterToggle
    /\ session.viewMode = "double" /\ session.last = "advance"
    /\ session.from = 1 /\ session.currentPage = 3

\* C15: a mount, also the remount of a chapter switch, shows the page seeded
\* from the item stored under the new identity's key (clamped into the new page
\* list), or page 1 if none, whatever page the previous session was on; and no
\* step changes the item stored for an identity other than the mounted one.
C15_ChapterSwitchIsFreshMount ==
    [][ /\ (session'.status = "mounted" /\ session'.last = "mount") =>
              LET seen == session'.seen
                  n == session'.totalPages
                  c == session'.currentPage
              IN /\ seen.kind # "record" => c = 1
                 /\ seen.kind = "record" =>
                       /\ (seen.page < 1 \/ n = 0) => c = 1
                       /\ (1 <= seen.page /\ seen.page <= n) => c = seen.page
                       /\ (seen.page > n /\ n >= 1) => c = n
        /\ \A i \in Identities :
              (<<i.kind, i.id, i.chapterKey>> #
                  <<session'.kind, session'.id, session'.chapterKey>>)
                 => GetItem(storage', ProgressKey(i.kind, i.id, i.chapterKey))
                      = GetItem(storage, ProgressKey(i.kind, i.id, i.chapterKey))
      ]_vars

\* C15 witness: the reader was switched from a chapter it had open at page 3 to
\* a chapter of three pages with nothing stored; it shows page 1, and the record
\* of the chapter it left still says page 3.
C15_Witness ==
    /\ session.status = "mounted" /\ session.last = "mount"
    /\ session.leftPage = 3 /\ session.seen.kind = "null"
    /\ session.totalPages = 3 /\ session.currentPage = 1
    /\ \E i \in Identities :
          /\ ProgressKey(i.kind, i.id, i.chapterKey) # SessionKey
          /\ GetItem(storage, ProgressKey(i.kind, i.id, i.chapterKey)) = Progress(3, 3)

\* the label and the display area of the mounted reader
SessionLabel == getPageDisplay(session.totalPages, session.viewMode, session.currentPage)
SessionDisplay == Display(session.totalPages, session.viewMode, session.currentPage)

\* C16 (as claimed): the label is "{current} / {total}" in single mode and in
\* double mode on the last page, and "{current}-{current+1} / {total}" in double
\* mode elsewhere.
C16_LabelForms ==
    session.status = "mounted" =>
        LET c == session.currentPage
            t == session.totalPages
        IN SessionLabel =
              (IF session.viewMode = "single" \/ c = t
                 THEN ToString(c) \o " / " \o ToString(t)
                 ELSE ToString(c) \o "-" \o ToString(c + 1) \o " / " \o ToString(t))

\* C16 (amended): over a list of at least one page the label has the forms
\* claimed (with 7 pages, page 6 in double mode gives "6-7 / 7" and page 7 gives
\* "7 / 7"); over an empty list it is "0 / 0" whatever the current page.
C16_LabelFormsOfNonEmptyList ==
    /\ getPageDisplay(7, "double", 6) = "6-7 / 7"
    /\ getPageDisplay(7, "double", 7) = "7 / 7"
    /\ session.status = "mounted" =>
          LET c == session.currentPage
              t == session.totalPages
          IN /\ t = 0 => SessionLabel = "0 / 0"
             /\ t >= 1 =>
                   SessionLabel =
                      (IF session.viewMode = "single" \/ c = t
                         THEN ToString(c) \o " / " \o ToString(t)
                         ELSE ToString(c) \o "-" \o ToString(c + 1)
                                \o " / " \o ToString(t))

\* C16 witness: double mode on the last of three pages, labelled "3 / 3".
C16_Witness ==
    /\ session.status = "mounted" /\ session.viewMode = "double"
    /\ session.totalPages = 3 /\ session.currentPage = 3
    /\ SessionLabel = "3 / 3"

\* C17: over a list of at least one page the images shown are, in single mode,
\* exactly the current page; in double mode the current page and the next one
\* if there is one, else the current page beside an empty box.  Every page shown
\* is one of pages 1..totalPages.
C17_VisiblePages ==
    (session.status = "mounted" /\ session.totalPages >= 1) =>
        LET c == session.currentPage
            n == session.totalPages
            d == SessionDisplay
        IN /\ ~d.loading
           /\ \A i \in 1..Len(d.images) : d.images[i] >= 1 /\ d.images[i] <= n
           /\ session.viewMode = "single" => (d.images = <<c>> /\ ~d.emptyBox)
           /\ (session.viewMode = "double" /\ c + 1 <= n)
                 => (d.images = <<c, c + 1>> /\ ~d.emptyBox)
           /\ (session.viewMode = "double" /\ c + 1 > n)
                 => (d.images = <<c>> /\ d.emptyBox)

\* C17 witness: double mode on the last of three pages: page 3 beside the empty box.
C17_Witness ==
    /\ session.status = "mounted" /\ session.viewMode = "double"
    /\ session.totalPages = 3 /\ session.currentPage = 3
    /\ SessionDisplay = [images |-> <<3>>, emptyBox |-> TRUE, loading |-> FALSE]

\* =============================================================== resolver
\* the source paths made of a route, an id segment of letters and digits only,
\* and a closing slash, after an optional host
PathsWithId(route) ==
    {[path |-> pre \o route \o seg \o <<"/">>, id |-> Concat(seg)] :
        pre \in PathPrefixes, seg \in {s \in IdSegments : s # <<>> /\ \A i \in 1..Len(s) : IsAlnum(s[i])}}

\* C18 (as claimed): resolve on ".../album/chapter/{albumId}/", "/album/chapter/abc123/"
\* among them, calls the album fetcher with exactly that albumId.
C18_AlbumRouteDelegates ==
    \A e \in PathsWithId(AlbumRoute) :
        (lastStep.op = "resolve" /\ lastStep.path = e.path)
            => (lastStep.delegated /\ lastStep.albumId = e.id)

\* C18 (amended): resolve on ".../proxy/api/imgur/chapter/{albumId}/", with
\* albumId made of letters and digits, calls fetchImgurAlbumPages with exactly
\* that albumId ("/proxy/api/imgur/chapter/abc123/": "abc123"), and what it
\* returns is the fetcher's page list, the list cached for that albumId.
C18_ImgurRouteDelegates ==
    /\ \A e \in PathsWithId(ImgurRoute) :
          (lastStep.op = "resolve" /\ lastStep.path = e.path)
              => (lastStep.delegated /\ lastStep.albumId = e.id)
    /\ (lastStep.op \in {"resolve", "resolved"} /\ lastStep.next = "return")
          => (/\ MapHas(albumCache, lastStep.albumId)
              /\ lastStep.pages = albumCache[lastStep.albumId]
              /\ lastStep.pages # <<>>)

\* C18 witness: resolve on "/proxy/api/imgur/chapter/abc123/" has returned the
\* page list that fetchImgurAlbumPages("abc123") has cached.
C18_Witness ==
    /\ lastStep.op = "resolve" /\ lastStep.next = "return"
    /\ lastStep.path = ImgurRoute \o <<"abc123", "/">>
    /\ lastStep.albumId = "abc123"
    /\ lastStep.pages = albumCache["abc123"]

\* the source paths in which no "/proxy/api/imgur/chapter/" is followed by a
\* letter or digit
Unrecognized(path) ==
    \A i \in 1..Len(path) :
        ~(/\ i + Len(ImgurRoute) <= Len(path)
          /\ \A j \in 1..Len(ImgurRoute) : path[i + j - 1] = ImgurRoute[j]
          /\ IsAlnum(path[i + Len(ImgurRoute)]))

\* C19: resolve on a source path that matches no pattern throws the unsupported
\* error naming the whole path; it calls no fetcher, issues no request, and
\* leaves the caches, the pending deletions and the suspended calls as they were.
C19_UnsupportedSource ==
    [][ (lastStep'.op = "resolve" /\ Unrecognized(lastStep'.path)) =>
          /\ ~lastStep'.delegated
          /\ lastStep'.next = "throw" /\ lastStep'.err = "Unsupported"
          /\ lastStep'.errPath = lastStep'.path
          /\ lastStep'.net = 0
          /\ albumCache' = albumCache /\ gistCache' = gistCache
          /\ timers' = timers /\ call' = call
      ]_vars

\* C19 witness: with an album cached, resolve on "/album/chapter/abc123/" has
\* thrown the unsupported error.
C19_Witness ==
    /\ lastStep.op = "resolve" /\ lastStep.err = "Unsupported"
    /\ lastStep.path = AlbumRoute \o <<"abc123", "/">>
    /\ albumCache # EmptyMap

\* ============================================================ chapter keys
\* a key that is, as a whole, a decimal number
IsDecimalNumber(key) ==
    /\ \E i \in DOMAIN key : key[i] \in Digits
    /\ \A i \in DOMAIN key : key[i] \in Digits \cup {"."}
    /\ Cardinality({ i \in DOMAIN key : key[i] = "." }) <= 1

\* character code of a character
CharCode(c) ==
    CASE c = "." -> 46
      [] c \in Digits -> 48 + DigitValue(c)
      [] c = "a" -> 97
      [] c = "b" -> 98
      [] c = "x" -> 120

RECURSIVE LexBefore(_, _)
\* a is strictly before b in lexicographic string order
LexBefore(a, b) ==
    IF b = <<>> THEN FALSE
    ELSE IF a = <<>> THEN TRUE
    ELSE IF Head(a) # Head(b) THEN CharCode(Head(a)) < CharCode(Head(b))
    ELSE LexBefore(Tail(a), Tail(b))

\* the order the rule puts two keys in
OrderedBefore(a, b) ==
    IF IsDecimalNumber(a) /\ IsDecimalNumber(b)
    THEN NumberDiff(parseFloat(a), parseFloat(b)) < 0
    ELSE LexBefore(a, b)

\* C20 (as claimed): the sorted chapter keys are the given keys, ordered
\* numerically where both keys are decimal numbers and lexicographically
\* otherwise; sort(["10","2","9"]) = ["2","9","10"] and
\* sort(["b","a","10x"]) = ["10x","a","b"].
C20_KeysOrderedByRule ==
    /\ sortChapterKeys(<< <<"1", "0">>, <<"2">>, <<"9">> >>)
          = << <<"2">>, <<"9">>, <<"1", "0">> >>
    /\ sortChapterKeys(<< <<"b">>, <<"a">>, <<"1", "0", "x">> >>)
          = << <<"1", "0", "x">>, <<"a">>, <<"b">> >>
    /\ lastStep.op = "sorted" =>
          /\ Len(lastStep.sorted) = Len(lastStep.keys)
          /\ { lastStep.sorted[i] : i \in DOMAIN lastStep.sorted }
                = { lastStep.keys[i] : i \in DOMAIN lastStep.keys }
          /\ \A i, j \in DOMAIN lastStep.sorted :
                i < j => ~OrderedBefore(lastStep.sorted[j], lastStep.sorted[i])

\* C21 (as claimed): a key that is not entirely a decimal number is compared
\* with every other key as a string: in the sorted keys, two keys of which one
\* is not a whole number stand in lexicographic order, whatever digits the key
\* starts with.
C21_PartlyNumericKeyComparedAsString ==
    lastStep.op = "sorted" =>
        \A i, j \in DOMAIN lastStep.sorted :
            (/\ i < j
             /\ (~IsDecimalNumber(lastStep.sorted[i]) \/ ~IsDecimalNumber(lastStep.sorted[j])))
                => ~LexBefore(lastStep.sorted[j], lastStep.sorted[i])

\* ============================================================ album fetcher
\* C22: a call of the album fetcher that misses the cache while the credential
\* is not configured throws the missing-credential error, issues no network
\* request, and leaves the cache and the pending deletions as they were.
C22_MissingCredential ==
    [][ (/\ lastStep'.op = "start" /\ lastStep'.kind = "imgur"
         /\ ~lastStep'.present /\ ~clientId)
           => /\ lastStep'.next = "throw" /\ lastStep'.err = "AuthError"
              /\ lastStep'.net = 0
              /\ \A p \in Callers : call'[p] = call[p]
              /\ albumCache' = albumCache /\ gistCache' = gistCache
              /\ timers' = timers
      ]_vars

\* C22 witness: a call has just thrown the missing-credential error
C22_Witness ==
    /\ lastStep.op = "start" /\ lastStep.kind = "imgur"
    /\ ~clientId /\ ~lastStep.present
    /\ lastStep.err = "AuthError"

\* the entries of a data array whose type names an image
RECURSIVE ImageEntries(_)
ImageEntries(data) ==
    IF data = <<>> THEN <<>>
    ELSE IF Head(data).type # <<>> /\ Head(data).type[1] = "image"
         THEN <<Head(data)>> \o ImageEntries(Tail(data))
    ELSE ImageEntries(Tail(data))

\* C23: the album fetcher, resumed with the endpoint's response, fails at the
\* first check that applies: HTTP status not a success (remote error carrying
\* the status), then success flag false (api-rejected), then data not an array
\* (format error), then no image entry (empty-result error); it returns a page
\* list exactly when all four checks pass.
C23_ChecksInOrder ==
    (lastStep.op = "end" /\ lastStep.kind = "imgur") =>
        LET r == lastStep.resp
            ok == r.status \in 200..299
        IN  /\ ~ok => (lastStep.err = "RemoteError" /\ lastStep.status = r.status)
            /\ (ok /\ ~r.success) => lastStep.err = "ApiRejected"
            /\ (ok /\ r.success /\ ~r.isArray) => lastStep.err = "FormatError"
            /\ (ok /\ r.success /\ r.isArray /\ ImageEntries(r.data) = <<>>)
                  => lastStep.err = "EmptyResult"
            /\ lastStep.tag = "value"
                  <=> (ok /\ r.success /\ r.isArray /\ ImageEntries(r.data) # <<>>)
            /\ lastStep.tag = "error" <=> lastStep.err # ""

\* C23 witness: a response that fails the status check and the success check
\* has ended the call
C23_Witness ==
    /\ lastStep.op = "end" /\ lastStep.kind = "imgur"
    /\ lastStep.resp.status = 403 /\ ~lastStep.resp.success
    /\ lastStep.err = "RemoteError"

\* C24: the page list the album fetcher returns, and the one it caches, is the
\* list of links of the response's image entries, in the response's order.
C24_PagesAreImageLinks ==
    (lastStep.op = "end" /\ lastStep.kind = "imgur" /\ lastStep.tag = "value") =>
        LET images == ImageEntries(lastStep.resp.data)
            links == [i \in 1..Len(images) |-> images[i].link]
        IN  /\ lastStep.val = links
            /\ lastStep.wrote
            /\ MapHas(albumCache, lastStep.id)
            /\ albumCache[lastStep.id] = links

\* C24 witness: a response of full length that lists an entry which is not an
\* image has been answered with fewer links than it has entries
C24_Witness ==
    /\ lastStep.op = "end" /\ lastStep.kind = "imgur" /\ lastStep.tag = "value"
    /\ Len(lastStep.resp.data) = MaxData
    /\ \E i \in DOMAIN lastStep.resp.data : lastStep.resp.data[i].type # <<"image", "png">>
          /\ lastStep.resp.data[i].type # <<"image", "jpeg">>
    /\ Len(lastStep.val) < Len(lastStep.resp.data)

\* ========================================================= manifest fetcher
\* the manifest has no title field
LacksTitle(doc) == ~\E i \in DOMAIN doc.props : doc.props[i][1] = "title"

\* the fields of an object with the given name
FieldsNamed(obj, name) == { i \in DOMAIN obj.props : obj.props[i][1] = name }

\* some chapter of the manifest has a group whose value is not an array
HasNonArrayGroup(doc) ==
    \E c \in FieldsNamed(doc, "chapters") :
        LET chapters == doc.props[c][2]
        IN  /\ chapters.t = "object"
            /\ \E k \in DOMAIN chapters.props :
                  LET chapter == chapters.props[k][2]
                  IN  /\ chapter.t = "object"
                      /\ \E g \in FieldsNamed(chapter, "groups") :
                            LET groups == chapter.props[g][2]
                            IN  \/ groups.t # "object"
                                \/ \E n \in DOMAIN groups.props :
                                      groups.props[n][2].t # "array"

\* the step ended a manifest fetch that had the manifest's file text in hand
ParsedManifest ==
    /\ lastStep.op = "end" /\ lastStep.kind = "gist"
    /\ "text" \in DOMAIN lastStep
    /\ lastStep.text.kind = "json"

UnknownFields(obj, shape) ==
    { i \in DOMAIN obj.props : \A j \in DOMAIN shape : shape[j] # obj.props[i][1] }

\* the object has the field, with that value
Retains(obj, field) == \E i \in DOMAIN obj.props : obj.props[i] = field

\* the object without the fields a schema does not declare
WithoutUnknown(obj, shape) ==
    [t |-> "object",
     props |-> SelectSeq(obj.props, LAMBDA kv : \E j \in DOMAIN shape : shape[j] = kv[1])]

\* the manifest without its unknown top-level and chapter-level fields
KnownPart(doc) ==
    LET top == WithoutUnknown(doc, <<"title", "description", "artist", "author",
                                     "cover", "chapters">>)
    IN  [t |-> "object",
         props |-> [i \in DOMAIN top.props |->
            IF top.props[i][1] = "chapters" /\ top.props[i][2].t = "object"
              THEN <<"chapters",
                     [t |-> "object",
                      props |-> [k \in DOMAIN top.props[i][2].props |->
                         LET kv == top.props[i][2].props[k]
                         IN  IF kv[2].t = "object"
                               THEN <<kv[1], WithoutUnknown(kv[2], <<"title", "volume",
                                                                     "groups">>)>>
                               ELSE kv]]>>
              ELSE top.props[i]]]

\* C29: a manifest that is valid once its unknown fields are left out passes
\* validation, and the validated result, which is also the cached one, has
\* every unknown top-level field and every unknown field of every chapter,
\* with the value the manifest gave it.
C29_UnknownFieldsRetained ==
    (ParsedManifest /\ GistConfigSchemaOk(KnownPart(lastStep.text.doc))) =>
        LET doc == lastStep.text.doc
            out == lastStep.val
        IN  /\ lastStep.tag = "value"
            /\ gistCache[lastStep.id] = out
            /\ \A i \in UnknownFields(doc, GistConfigShape) : Retains(out, doc.props[i])
            /\ \A c \in FieldsNamed(doc, "chapters") :
                  \A k \in DOMAIN doc.props[c][2].props :
                     LET chapter == doc.props[c][2].props[k]
                     IN  \E oc \in FieldsNamed(out, "chapters") :
                         \E ok \in DOMAIN out.props[oc][2].props :
                            /\ out.props[oc][2].props[ok][1] = chapter[1]
                            /\ \A u \in UnknownFields(chapter[2], ChapterShape) :
                                  Retains(out.props[oc][2].props[ok][2], chapter[2].props[u])

\* C29 witness: a manifest with an unknown top-level field and an unknown
\* chapter field has been validated and returned
C29_Witness ==
    /\ ParsedManifest /\ lastStep.tag = "value"
    /\ UnknownFields(lastStep.text.doc, GistConfigShape) # {}
    /\ \E c \in FieldsNamed(lastStep.text.doc, "chapters") :
          \E k \in DOMAIN lastStep.text.doc.props[c][2].props :
             UnknownFields(lastStep.text.doc.props[c][2].props[k][2], ChapterShape) # {}

\* the file's name ends in .json, in either case
NameEndsInJson(file) ==
    file.filename # <<>> /\ file.filename[Len(file.filename)] \in {"json", "JSON"}

\* the files of a listing whose name ends in .json, in the listing's order
JsonFilesOf(files) == SelectSeq(files, NameEndsInJson)

\* the step resumed a manifest fetch with a listing of the gist's files
ListingStep(note) ==
    /\ "from" \in DOMAIN note /\ "api" \in DOMAIN note.from
    /\ note.from.api.status = 200 /\ note.from.api.hasFiles

\* C30: of the gist's files, the first whose name ends in .json is read: through
\* its raw_url when it has one (the inline content is then not used), from its
\* inline content when it has no raw_url, and the text that is parsed after a
\* request to the raw_url is that request's answer; with neither raw_url nor
\* content, or with no such file, the fetch fails and the cache and the pending
\* deletions stay as they were.
C30_RawUrlPreferred ==
    [][ /\ ListingStep(lastStep') =>
             LET json == JsonFilesOf(lastStep'.from.api.files)
                 failed == /\ lastStep'.op = "end" /\ lastStep'.tag = "error"
                           /\ gistCache' = gistCache /\ timers' = timers
             IN  IF json = <<>> THEN failed /\ lastStep'.err = "NoJsonFile"
                 ELSE IF json[1].raw_url
                   THEN /\ lastStep'.op = "raw"
                        /\ \E p \in Callers : call[p].pc = "api" /\ call'[p].pc = "raw"
                        /\ gistCache' = gistCache
                 ELSE IF json[1].content # [kind |-> "empty"]
                   THEN lastStep'.op = "end" /\ lastStep'.text = json[1].content
                 ELSE failed /\ lastStep'.err = "NoContent"
        /\ ("from" \in DOMAIN lastStep' /\ "raw" \in DOMAIN lastStep'.from
                /\ lastStep'.from.raw.ok)
              => (lastStep'.op = "end" /\ lastStep'.text = lastStep'.from.raw.text)
      ]_vars

\* C30 witness: the raw_url of the manifest file was requested, and the fetch
\* has returned the manifest that request answered
C30_Witness ==
    /\ lastStep.op = "end" /\ lastStep.kind = "gist" /\ lastStep.tag = "value"
    /\ "raw" \in DOMAIN lastStep.from
    /\ lastStep.text = lastStep.from.raw.text
    /\ lastStep.text # [kind |-> "malformed"]

\* ======================================================== gist reader page
\* the value of an object's field (the object has it)
FieldOf(obj, name) == obj.props[CHOOSE i \in DOMAIN obj.props : obj.props[i][1] = name][2]

HasField(obj, name) == \E i \in DOMAIN obj.props : obj.props[i][1] = name

\* a chapter of the shape the manifest format gives it: a title and groups
\* that map names to arrays of strings
ChapterShaped(ch) ==
    /\ ch.t = "object" /\ HasField(ch, "title") /\ HasField(ch, "groups")
    /\ FieldOf(ch, "groups").t = "object"
    /\ \A g \in DOMAIN FieldOf(ch, "groups").props :
          LET v == FieldOf(ch, "groups").props[g][2]
          IN  v.t = "array" /\ \A i \in DOMAIN v.items : v.items[i].t = "string"

\* a chapter with zero groups, or with a group that is empty or has an entry
\* that is not a URL
UnreadableChapter(ch) ==
    /\ ChapterShaped(ch)
    /\ LET groups == FieldOf(ch, "groups").props
       IN  \/ groups = <<>>
           \/ \E g \in DOMAIN groups :
                 \/ groups[g][2].items = <<>>
                 \/ \E i \in DOMAIN groups[g][2].items :
                       groups[g][2].items[i].s \notin UrlStrings

\* the manifest without its unreadable chapters
ReadablePart(doc) ==
    [t |-> "object",
     props |-> [i \in DOMAIN doc.props |->
        IF doc.props[i][1] = "chapters"
          THEN <<"chapters",
                 [t |-> "object",
                  props |-> SelectSeq(doc.props[i][2].props,
                                      LAMBDA kv : ~UnreadableChapter(kv[2]))]>>
          ELSE doc.props[i]]]

\* the page was rendered from a manifest just fetched, which is valid but for
\* a chapter that is unreadable
PageOfPartlyReadable ==
    /\ lastStep.op = "page" /\ lastStep.text.kind = "json"
    /\ HasField(lastStep.text.doc, "chapters")
    /\ FieldOf(lastStep.text.doc, "chapters").t = "object"
    /\ ReadablePart(lastStep.text.doc) # lastStep.text.doc
    /\ GistConfigSchemaOk(ReadablePart(lastStep.text.doc))

\* C26 (as claimed): a manifest with a chapter that has zero groups, an empty
\* group or a group with non-URL entries passes validation; the page shows an
\* error for that chapter only, and the reader for the manifest's other chapters.
C26_UnreadableChapterRejectedAtRead ==
    PageOfPartlyReadable =>
        LET chapters == FieldOf(lastStep.text.doc, "chapters")
        IN  /\ lastStep.fetchErr = ""
            /\ HasField(chapters, lastStep.chapter) =>
                  (lastStep.screen = "error"
                      <=> UnreadableChapter(FieldOf(chapters, lastStep.chapter)))

\* some chapter of the manifest has a group with an entry that is not a URL
HasNonUrlEntry(doc) ==
    \E k \in DOMAIN FieldOf(doc, "chapters").props :
        LET ch == FieldOf(doc, "chapters").props[k][2]
        IN  /\ ChapterShaped(ch)
            /\ \E g \in DOMAIN FieldOf(ch, "groups").props :
                  \E i \in DOMAIN FieldOf(ch, "groups").props[g][2].items :
                     FieldOf(ch, "groups").props[g][2].items[i].s \notin UrlStrings

\* C26 (amended): a manifest with a chapter that has zero groups or an empty
\* group passes validation; the page shows an error for that chapter only,
\* and the reader for the manifest's other chapters. A manifest with a group
\* entry that is not a URL fails validation with the schema error, and the
\* page shows an error for each of its chapters.
C26_EmptyChapterRejectedAtRead ==
    /\ (PageOfPartlyReadable /\ ~HasNonUrlEntry(lastStep.text.doc)) =>
          LET chapters == FieldOf(lastStep.text.doc, "chapters")
          IN  /\ lastStep.fetchErr = ""
              /\ HasField(chapters, lastStep.chapter) =>
                    (lastStep.screen = "error"
                        <=> UnreadableChapter(FieldOf(chapters, lastStep.chapter)))
    /\ (PageOfPartlyReadable /\ HasNonUrlEntry(lastStep.text.doc)) =>
          (lastStep.fetchErr = "ZodError" /\ lastStep.screen = "error")

\* C26 witness: of a manifest whose chapter "2" has an empty group, chapter "1"
\* has been handed to the reader
C26_Witness ==
    /\ PageOfPartlyReadable /\ ~HasNonUrlEntry(lastStep.text.doc)
    /\ \E k \in DOMAIN FieldOf(lastStep.text.doc, "chapters").props :
          LET kv == FieldOf(lastStep.text.doc, "chapters").props[k]
          IN  /\ kv[1] # lastStep.chapter
              /\ UnreadableChapter(kv[2])
              /\ FieldOf(kv[2], "groups").props # <<>>
    /\ lastStep.screen = "reader" /\ lastStep.pages # <<>>

\* the chapter the page was asked for, in the config it fetched
SelectedChapter == FieldOf(FieldOf(lastStep.config, "chapters"), lastStep.chapter)

\* the page has a config with the chapter it was asked for, and the chapter
\* has a group
PageOfChapterWithGroup ==
    /\ lastStep.op = "page" /\ lastStep.config.t = "object"
    /\ HasField(FieldOf(lastStep.config, "chapters"), lastStep.chapter)
    /\ FieldOf(SelectedChapter, "groups").props # <<>>

\* the value of the first group of the chapter the page was asked for
FirstGroup == FieldOf(SelectedChapter, "groups").props[1][2]

\* C27 (as claimed): a chapter whose pages are an empty list is shown by the
\* reader, mounted over zero pages with the label "0 / 0", and not by an error
\* screen.
C27_EmptyChapterIsNotAnError ==
    (PageOfChapterWithGroup /\ FirstGroup = [t |-> "array", items |-> <<>>]) =>
        /\ lastStep.screen = "reader"
        /\ lastStep.pages = <<>>
        /\ getPageDisplay(Len(lastStep.pages), "single", 1) = "0 / 0"

ImageLinks == {img.link : img \in {e \in ImgurImages : e.type # <<>> /\ e.type[1] = "image"}}

\* a list of URL strings
UrlList(v) ==
    v.t = "array" /\ \A i \in DOMAIN v.items :
                        v.items[i].t = "string" /\ v.items[i].s \in UrlStrings

\* a manifest of the validated form: a non-empty title, and chapters that each
\* have a title and groups of URL lists
ValidManifest(m) ==
    /\ m.t = "object"
    /\ HasField(m, "title") /\ FieldOf(m, "title").t = "string" /\ FieldOf(m, "title").s # ""
    /\ HasField(m, "chapters") /\ FieldOf(m, "chapters").t = "object"
    /\ \A k \in DOMAIN FieldOf(m, "chapters").props :
          LET ch == FieldOf(m, "chapters").props[k][2]
          IN  /\ ch.t = "object"
              /\ HasField(ch, "title") /\ FieldOf(ch, "title").t = "string"
              /\ HasField(ch, "groups") /\ FieldOf(ch, "groups").t = "object"
              /\ \A g \in DOMAIN FieldOf(ch, "groups").props :
                    UrlList(FieldOf(ch, "groups").props[g][2])

\* C31: in every reachable state every value of the album cache is a non-empty
\* list of image links and every value of the manifest cache is a manifest of
\* the validated form; a fetch that ended in an error stored nothing.
C31_CachesHoldOnlyGoodResults ==
    /\ \A id \in DOMAIN albumCache :
          /\ Len(albumCache[id]) > 0
          /\ \A i \in DOMAIN albumCache[id] : albumCache[id][i] \in ImageLinks
    /\ \A id \in DOMAIN gistCache : ValidManifest(gistCache[id])
    /\ (lastStep.op = "end" /\ lastStep.tag = "error") => ~lastStep.wrote

\* C31 witness: a manifest is cached, and the fetch of another gist has just
\* ended because its file failed validation
C31_Witness ==
    /\ lastStep.op = "end" /\ lastStep.kind = "gist" /\ lastStep.err = "ZodError"
    /\ DOMAIN gistCache # {} /\ lastStep.id \notin DOMAIN gistCache


\* ============================================================ reading session
\* the reader was mounted by the last step over a stored record whose page p
\* satisfies 2 <= p <= totalPages (seen is what the key held before the mount)
MountedOverProgress ==
    /\ session.status = "mounted" /\ session.last = "mount"
    /\ session.seen.kind = "record"
    /\ 2 <= session.seen.page /\ session.seen.page <= session.totalPages

\* C32: when a reader mounts over a stored record whose page p satisfies
\* 2 <= p <= totalPages, the mount effect picks p from the record as it was
\* before the session wrote anything, so the current page is p; and once the
\* save effect has run for that page the stored record's page is p.
C32_MountKeepsStoredProgress ==
    MountedOverProgress =>
        /\ session.currentPage = session.seen.page
        /\ ~session.savePending =>
              /\ GetItem(storage, SessionKey).kind = "record"
              /\ GetItem(storage, SessionKey).page = session.seen.page

\* C32 witness: a reader mounted over a record of page 3, its effects have
\* run, and the record holds page 3 of the session's own page count
C32_Witness ==
    /\ MountedOverProgress /\ ~session.savePending
    /\ session.seen = Progress(3, MaxPages) /\ session.totalPages = 3
    /\ GetItem(storage, SessionKey) = Progress(3, 3)


\* C33: every step that puts a new text under a storage key puts it under the
\* mounted session's key, and the text is a record with 1 <= page <= totalPages
\* whose totalPages is the length of the session's page list; a step of a
\* session over an empty page list puts no text under any key.
C33_WrittenRecordsAreInRange ==
    [][ \A k \in DOMAIN storage' :
           (k \notin DOMAIN storage \/ storage'[k] # storage[k]) =>
              /\ k = ProgressKey(session'.kind, session'.id, session'.chapterKey)
              /\ storage'[k].kind = "record"
              /\ 1 <= storage'[k].page /\ storage'[k].page <= storage'[k].totalPages
              /\ storage'[k].totalPages = session'.totalPages
              /\ session'.totalPages >= 1
      ]_vars

\* C33 witness: a session over three pages has advanced to the last one and
\* its save effect has written the record of page 3 of 3
C33_Witness ==
    /\ Settled /\ session.last = "advance" /\ session.totalPages = 3
    /\ GetItem(storage, SessionKey) = Progress(3, 3)


\* C34 (as claimed): in a session over an empty page list the current page is 1,
\* whatever Advance and Retreat steps were taken.
C34_CurrentPageStaysAtOne ==
    (session.status = "mounted" /\ session.totalPages = 0) => session.currentPage = 1


\* C35: in a reader over at least one page, in either view mode, repeating
\* Advance brings the current page to totalPages after finitely many steps and
\* it stays there, and repeating Retreat brings it to 1 and it stays there.
C35_RepeatedMoveSettles ==
    <>[]((session.status = "mounted" /\ session.totalPages >= 1) =>
            session.currentPage =
                IF HeldKey("ArrowRight") THEN session.totalPages ELSE 1)

\* C35 witness: in double mode over ten pages an Advance has run at page 10,
\* reached by repeating Advance, and the current page is still 10
C35_Witness ==
    /\ HeldKey("ArrowRight") /\ Settled
    /\ session.totalPages = MaxPages /\ session.viewMode = "double"
    /\ session.last = "advance" /\ session.from = MaxPages
    /\ session.currentPage = MaxPages


\* the pages whose images the double view shows at current page c of n
ShownInDouble(n, c) ==
    LET images == Display(n, "double", c).images
    IN  {images[i] : i \in DOMAIN images}

\* C36: in double mode over at least one page, an Advance or Retreat from page
\* c to page d skips no page: every page from the lower to the higher of c and
\* d is shown in the view at c or in the view at d, also when the step was
\* clamped at the last page or at page 1.  Repeated up to the last page (down
\* to page 1) the views therefore show every page from c to totalPages (from
\* 1 to c).
C36_DoubleStepSkipsNoPage ==
    [][ (/\ Settled /\ session.viewMode = "double" /\ session.totalPages >= 1
         /\ session'.last \in {"advance", "retreat"})
        => LET c == session.currentPage
               d == session'.currentPage
               n == session.totalPages
           IN  /\ \A q \in Min(c, d)..Max(c, d) :
                      q \in ShownInDouble(n, c) \cup ShownInDouble(n, d)
               /\ session'.last = "advance" => (d >= c /\ (c < n => d > c))
               /\ session'.last = "retreat" => (d <= c /\ (c > 1 => d < c))
      ]_vars

\* C36 witness: in double mode over ten pages a Retreat from page 2 was clamped
\* to page 1
C36_Witness ==
    /\ HeldKey("ArrowLeft") /\ session.status = "mounted"
    /\ session.viewMode = "double" /\ session.totalPages = MaxPages
    /\ session.last = "retreat" /\ session.from = 2 /\ session.currentPage = 1


\* C37 (as claimed): in either view mode an Advance from a page that is not
\* the last page, followed at once by a Retreat in the same view mode, ends at
\* the page the Advance started from.
C37_AdvanceThenRetreatReturns ==
    [][ (/\ Settled /\ session.last = "advance"
         /\ session.from # session.totalPages
         /\ session'.last = "retreat")
        => session'.currentPage = session.from
      ]_vars

\* C37 (amended): an Advance from a page c that is not the last page, followed
\* at once by a Retreat in the same view mode, ends at c if the Advance was not
\* clamped (c + step <= totalPages, step 1 in single and 2 in double mode) or
\* c = 1; in double mode from c = totalPages - 1 >= 2 the Advance is clamped to
\* totalPages and the Retreat ends at c - 1.
C37_UnclampedAdvanceThenRetreatReturns ==
    [][ (/\ Settled /\ session.last = "advance"
         /\ session.from # session.totalPages
         /\ session'.last = "retreat")
        => LET c == session.from
               step == IF session.viewMode = "double" THEN 2 ELSE 1
           IN  /\ session'.viewMode = session.viewMode
               /\ (c + step <= session.totalPages \/ c = 1) => session'.currentPage = c
               /\ (c + step > session.totalPages /\ c > 1) =>
                     /\ session.viewMode = "double"
                     /\ c = session.totalPages - 1
                     /\ session'.currentPage = c - 1
      ]_vars

\* C37 witness: in double mode over ten pages the Advance went from page 3 to
\* page 5 and the Retreat that followed it has ended at page 3
C37_Witness ==
    /\ session.status = "mounted" /\ session.viewMode = "double"
    /\ session.totalPages = MaxPages /\ session.last = "retreat"
    /\ session.from = 5 /\ session.currentPage = 3


\* =================================================== resolver, the id segment
\* the source paths whose id segment after "/proxy/api/imgur/chapter/" is seg
PathsWithSegment(seg) ==
    {pre \o ImgurRoute \o seg \o suf : pre \in PathPrefixes, suf \in PathSuffixes}

\* C38 (as claimed): resolve calls the album fetcher only for a source path
\* whose id segment is made of letters and digits throughout, and with the
\* whole segment as the id; a path whose id segment holds another character
\* gets the unsupported error and no call of the fetcher.
C38_WholeIdSegmentOrRejected ==
    \A seg \in IdSegments :
        (lastStep.op = "resolve" /\ lastStep.path \in PathsWithSegment(seg)) =>
            /\ lastStep.delegated => lastStep.albumId = Concat(seg)
            /\ (\E i \in DOMAIN seg : ~IsAlnum(seg[i])) =>
                  (~lastStep.delegated /\ lastStep.err = "Unsupported")


\* ============================================================ gist info page
\* C39 (as claimed): once a load has been started, the loading indicator is
\* shown exactly while some load is in flight; and when none is in flight the
\* screen is that of the load started last: the error screen with its error
\* if and only if it failed, the manifest it returned if it succeeded.
C39_NewestLoadDecidesScreen ==
    (session.status = "info" /\ session.newest # "none") =>
        LET busy == \E p \in Callers : InFlight(p)
            view == InfoScreen(session)
        IN  /\ (view.screen = "loading") <=> busy
            /\ ~busy =>
                  /\ (view.screen = "error") <=> (session.newestEnd = "error")
                  /\ session.newestEnd = "error" => view.error = session.newestErr
                  /\ session.newestEnd = "value" =>
                        (view.screen = "manifest" /\ view.config = session.newestVal)


====
